---- MODULE Spec2Model ----
(***************************************************************************)
(* State-machine model of the content script's hybrid visual scraper,      *)
(* scrapeVisualGraph (src/content.ts).  One pass over a page surface:      *)
(*   collect   processElement on every scanned text element                *)
(*   edges     the 'svg path' loop (findClosestNode, direction policy)     *)
(*   graph     explicit connections -> adjacency / hasParent               *)
(*   fallback  spatial fallback linking over the x-sorted candidates       *)
(*   assemble  root selection and the recursive buildNode                  *)
(*                                                                         *)
(* Geometry is kept in half pixels (Px(n) is n CSS pixels), so that a      *)
(* rectangle can sit on a half-pixel and Math.round is not the identity.   *)
(* A candidate's centre (left + width/2) is kept doubled: x2 = 2*x.        *)
(* Text is a sequence of one-character strings.                            *)
(*                                                                         *)
(* Six specifications:                                                     *)
(*   Spec       one call of scrapeVisualGraph over a surface               *)
(*   SpecPage   scrapePageStructure: the text selection parser             *)
(*              (parseTextStructure), then scrapeVisualGraph, then the     *)
(*              heading parser (scrapeHeaders)                             *)
(*   SpecRetry  two successive calls of scrapeVisualGraph over one         *)
(*              unchanged surface                                          *)
(*   SpecParse  parseTextStructure, one iteration of its loop at a time    *)
(*   SpecListener  the content script's message listener (GET_DATA)        *)
(*   SpecBackground  the message listener of src/background.ts             *)
(*              (OPEN_STUDIO_TAB)                                          *)
(***************************************************************************)
EXTENDS Integers, Sequences, FiniteSets, TLC

VARIABLES surface, pc, nScanned, el, candidatesMap, idCounter, candidates,
          nPaths, path, connections, processedPairs, adjacency, hasParent,
          i, rootNode, finalTree, outcome,
          stage, calls, pageResult, invocation, scanned, earlier,
          parseText, parseIndex, parseState, parseResult, parsePc,
          request, responses, listenerPc,
          messages, delivered, returns, writing, callbacks, storage, tabs,
          replies, effects

\* The caller's side of a pass: the stage of scrapePageStructure, the
\* producers it has called and what it returns.
pageVars == <<stage, calls, pageResult>>

\* One call of parseTextStructure: its argument, the index of its loop, the
\* nodes made and the stack, what it returns, and where it is.
parserVars == <<parseText, parseIndex, parseState, parseResult, parsePc>>

\* The listener of the content script: the message it is called with, the
\* calls of sendResponse it has made, and where it is.
listenerVars == <<request, responses, listenerPc>>

\* The background script: the messages it is sent and how many of them its
\* listener has been called with, what the listener returned for each, the
\* writes to local storage in flight, the writes whose callback is due,
\* mindMapData in local storage, the tabs created, the calls of sendResponse,
\* and the effects in the order they took place.
backgroundVars == <<messages, delivered, returns, writing, callbacks, storage,
                    tabs, replies, effects>>

\* What neither scrapeVisualGraph nor scrapePageStructure writes.
otherVars == <<parserVars, listenerVars, backgroundVars>>

\* What scrapePageStructure and scrapeVisualGraph read and write.
scrapeVars == <<surface, pc, nScanned, el, candidatesMap, idCounter, candidates,
                nPaths, path, connections, processedPairs, adjacency, hasParent,
                i, rootNode, finalTree, outcome, pageVars, invocation, scanned,
                earlier>>

vars == <<scrapeVars, otherVars>>

\* Number of elements one pass scans, and number of svg paths it examines.
MaxScan == 3
MaxPaths == 3

Px(n) == 2 * n

\* null / undefined: a record no element, path, candidate or tree equals.
Null == [null |-> TRUE]

\* ------------------------------------------------------------------ text

Digit == {"0", "1", "2", "3", "4", "5", "6", "7", "8", "9"}

DigitChar(d) ==
  CASE d = 0 -> "0" [] d = 1 -> "1" [] d = 2 -> "2" [] d = 3 -> "3"
    [] d = 4 -> "4" [] d = 5 -> "5" [] d = 6 -> "6" [] d = 7 -> "7"
    [] d = 8 -> "8" [] d = 9 -> "9"

\* Number -> string conversion of a template literal / Array.prototype.join.
RECURSIVE NatToStr(_)
NatToStr(n) ==
  IF n < 10 THEN <<DigitChar(n)>>
  ELSE NatToStr(n \div 10) \o <<DigitChar(n % 10)>>

ToStr(n) == IF n < 0 THEN <<"-">> \o NatToStr(-n) ELSE NatToStr(n)

\* The white space of the model (\s): space, tab and line feed.
WhiteSpace == {" ", "\t", "\n"}

\* String.prototype.trim
RECURSIVE TrimLeft(_)
TrimLeft(s) ==
  IF s # <<>> /\ Head(s) \in WhiteSpace THEN TrimLeft(Tail(s)) ELSE s

RECURSIVE TrimRight(_)
TrimRight(s) ==
  IF s # <<>> /\ s[Len(s)] \in WhiteSpace
  THEN TrimRight(SubSeq(s, 1, Len(s) - 1))
  ELSE s

Trim(s) == TrimRight(TrimLeft(s))

\* Math.round on a half-pixel coordinate: floor(v/2 + 0.5), in whole pixels
\* (Math.round(-0.5) is -0, printed "0").
Round(v) == (v + 1) \div 2

\* Characters outside ASCII are written by code point: U+25CF BLACK CIRCLE,
\* U+2022 BULLET, U+2192 RIGHTWARDS ARROW.
BlackCircle == "U+25CF"
Bullet == "U+2022"
RightArrow == "U+2192"

\* The character class of /^([<>+\-\u25CF\u2022]|\d+)$/
GarbageGlyph == {"<", ">", "+", "-", BlackCircle, Bullet}

\* isGarbage without the \d+ alternative of the pattern.
isGarbageGlyphOnly(text) ==
  LET t == Trim(text) IN
    \/ Len(t) = 0
    \/ Len(t) = 1 /\ t[1] \in GarbageGlyph

isGarbage(text) ==
  LET t == Trim(text) IN
    \/ Len(t) = 0
    \/ Len(t) = 1 /\ t[1] \in GarbageGlyph
    \/ Len(t) >= 1 /\ \A k \in 1..Len(t) : t[k] \in Digit

\* The key built from the unrounded position.
DedupeKeyUnrounded(rect, text) ==
  ToStr(rect.left) \o <<"-">> \o ToStr(rect.top) \o <<"-">> \o text

\* `${Math.round(rect.left)}-${Math.round(rect.top)}-${text}`
DedupeKey(rect, text) ==
  ToStr(Round(rect.left)) \o <<"-">> \o ToStr(Round(rect.top)) \o <<"-">> \o text

\* ------------------------------------------------------- candidatesMap

\* A Map in insertion order: a sequence of [key, value] entries.
MapHas(m, key) == \E k \in 1..Len(m) : m[k].key = key

MapValues(m) == [k \in 1..Len(m) |-> m[k].value]

\* The NodeCandidate stored for an element (the element reference is dropped).
NodeCandidate(id, text, rect) ==
  [id |-> id, text |-> text,
   x2 |-> 2 * rect.left + rect.width,
   y2 |-> 2 * rect.top + rect.height,
   width |-> rect.width, height |-> rect.height,
   left |-> rect.left, top |-> rect.top]

\* An element is [rect, visibility, display, opacity (percent), fontSize (px),
\* textContent].
Visible(e) ==
  ~(e.visibility = "hidden" \/ e.display = "none" \/ e.opacity < 10)

TextOf(e) == Trim(e.textContent)

MaxTextLength == 300

\* The length test taken inclusive: text.length <= 300.
TextAcceptedInclusive(text) ==
  text # <<>> /\ Len(text) <= MaxTextLength /\ ~isGarbage(text)

TextAccepted(text) ==
  text # <<>> /\ Len(text) < MaxTextLength /\ ~isGarbage(text)

\* The element passes the layout, visibility and glyph-size filters.
Rendered(e) ==
  /\ ~(e.rect.width = 0 \/ e.rect.height = 0)
  /\ Visible(e)
  /\ ~(e.rect.height < Px(10) /\ e.fontSize < 10)

\* Does processElement get as far as the candidatesMap for this element?
Accepted(e) == Rendered(e) /\ TextAccepted(TextOf(e))

\* ------------------------------------------------------------ edge inference

Max3(a, b, c) ==
  IF a >= b /\ a >= c THEN a ELSE IF b >= c THEN b ELSE c

\* Direct hit of the first pass: the point lies in (or on the border of) the box.
Contains(node, px, py) ==
  /\ px >= node.left /\ px <= node.left + node.width
  /\ py >= node.top /\ py <= node.top + node.height

\* dx*dx + dy*dy of the second pass: the squared distance to the bounding box.
\* Math.sqrt is monotone (and exact on perfect squares), so distances compare
\* as their squares do.
BoxDist2(node, px, py) ==
  LET dx == Max3(node.left - px, 0, px - (node.left + node.width))
      dy == Max3(node.top - py, 0, py - (node.top + node.height))
  IN dx * dx + dy * dy

\* The threshold taken exclusive: minD >= 100.
TooFarInclusive(minD2) == minD2 >= Px(100) * Px(100)

\* if (minD > 100) return null
TooFar(minD2) == minD2 > Px(100) * Px(100)

\* The second pass keeping the later of two equally close nodes.
RECURSIVE ProximityLastOnTies(_, _, _, _, _)
ProximityLastOnTies(cands, px, py, k, best) ==
  IF k > Len(cands) THEN best
  ELSE IF best = 0 \/ BoxDist2(cands[k], px, py) <= BoxDist2(cands[best], px, py)
       THEN ProximityLastOnTies(cands, px, py, k + 1, k)
       ELSE ProximityLastOnTies(cands, px, py, k + 1, best)

\* The second pass from candidates[k] on: best is the index of the closest
\* node so far (0: none yet, minD = Infinity).
RECURSIVE Proximity(_, _, _, _, _)
Proximity(cands, px, py, k, best) ==
  IF k > Len(cands) THEN best
  ELSE IF best = 0 \/ BoxDist2(cands[k], px, py) < BoxDist2(cands[best], px, py)
       THEN Proximity(cands, px, py, k + 1, k)
       ELSE Proximity(cands, px, py, k + 1, best)

findClosestNode(cands, px, py) ==
  LET hits == {k \in 1..Len(cands) : Contains(cands[k], px, py)} IN
    IF hits # {}
    THEN cands[CHOOSE k \in hits : \A h \in hits : k <= h]
    ELSE LET best == Proximity(cands, px, py, 1, 0) IN
           IF best = 0 \/ TooFar(BoxDist2(cands[best], px, py))
           THEN Null
           ELSE cands[best]

\* Code unit order of the characters an id is printed with.
CharCode(c) ==
  CASE c = "-" -> 45 [] c = "0" -> 48 [] c = "1" -> 49 [] c = "2" -> 50
    [] c = "3" -> 51 [] c = "4" -> 52 [] c = "5" -> 53 [] c = "6" -> 54
    [] c = "7" -> 55 [] c = "8" -> 56 [] c = "9" -> 57

\* s < t in the string order Array.prototype.sort uses by default.
RECURSIVE StrLess(_, _)
StrLess(s, t) ==
  IF t = <<>> THEN FALSE
  ELSE IF s = <<>> THEN TRUE
  ELSE IF Head(s) # Head(t) THEN CharCode(Head(s)) < CharCode(Head(t))
  ELSE StrLess(Tail(s), Tail(t))

\* The pair key without the sort.
PairKeyUnsorted(a, b) == ToStr(a) \o <<"-">> \o ToStr(b)

\* [startNode.id, endNode.id].sort().join('-')
PairKey(a, b) ==
  IF StrLess(ToStr(b), ToStr(a))
  THEN ToStr(b) \o <<"-">> \o ToStr(a)
  ELSE ToStr(a) \o <<"-">> \o ToStr(b)

\* The edge taken in the direction the stroke was drawn.
DirectionAsDrawn(startNode, endNode) ==
  [source |-> startNode.id, target |-> endNode.id]

\* The policy reversed: the candidate of larger centre x is the source.
DirectionRightToLeft(startNode, endNode) ==
  IF startNode.x2 < endNode.x2
  THEN [source |-> endNode.id, target |-> startNode.id]
  ELSE [source |-> startNode.id, target |-> endNode.id]

\* Direction policy: left to right on the centre x.
Direction(startNode, endNode) ==
  IF startNode.x2 < endNode.x2
  THEN [source |-> startNode.id, target |-> endNode.id]
  ELSE [source |-> endNode.id, target |-> startNode.id]

\* A path is [width, height] of its bounding box, hasTotalLength, throws (a
\* geometry call raises), len, ctm (getScreenCTM is not null), and the screen
\* points pStart, pEnd.
\* The icon test failing on either dimension.
LooksLikeIconEither(p) == p.width < Px(10) \/ p.height < Px(10)

LooksLikeIcon(p) == p.width < Px(10) /\ p.height < Px(10)

\* The sampling with a raised exception taken for a measured path.
SampledThrough(p) ==
  /\ ~LooksLikeIcon(p)
  /\ p.hasTotalLength
  /\ p.len > Px(5)
  /\ p.ctm

\* The path reaches the two findClosestNode calls.
Sampled(p) ==
  /\ ~LooksLikeIcon(p)
  /\ p.hasTotalLength
  /\ ~p.throws
  /\ p.len > Px(5)
  /\ p.ctm

StartNode(cands, p) == findClosestNode(cands, p.pStart.x, p.pStart.y)
EndNode(cands, p) == findClosestNode(cands, p.pEnd.x, p.pEnd.y)

\* if (startNode && endNode && startNode.id !== endNode.id)
Connects(cands, p) ==
  /\ Sampled(p)
  /\ StartNode(cands, p) # Null
  /\ EndNode(cands, p) # Null
  /\ StartNode(cands, p).id # EndNode(cands, p).id

\* ------------------------------------------------------------------ graph

EmptyMap == [k \in {} |-> <<>>]

\* adjacency.get(id) || []
AdjGet(adj, id) == IF id \in DOMAIN adj THEN adj[id] ELSE <<>>

\* if (!adjacency.has(s)) adjacency.set(s, []); adjacency.get(s)?.push(t)
AdjPush(adj, s, t) ==
  [k \in DOMAIN adj \cup {s} |-> IF k = s THEN Append(AdjGet(adj, s), t) ELSE adj[k]]

\* The number a sort comparator takes from a candidate: a.x - b.x orders by
\* "x", a.y - b.y by "y".
SortKey(c, by) == IF by = "x" THEN c.x2 ELSE c.y2

\* Array.prototype.sort with comparator (a, b) => a[by] - b[by]: stable.
Insert(sorted, c, by) ==
  LET pos == Cardinality({k \in 1..Len(sorted) :
                            SortKey(sorted[k], by) <= SortKey(c, by)})
  IN SubSeq(sorted, 1, pos) \o <<c>> \o SubSeq(sorted, pos + 1, Len(sorted))

SortBy(s, by) ==
  LET sorted[n \in 0..Len(s)] ==
        IF n = 0 THEN <<>> ELSE Insert(sorted[n - 1], s[n], by)
  IN sorted[Len(s)]

\* ---------------------------------------------------------------- fallback

\* sqrt(a) + p < sqrt(b) + q, for naturals a, b and integers p, q.
SqrtSumLess(a, p, b, q) ==
  LET d == q - p IN
    IF d >= 0
    THEN LET l == a - b - d * d IN l < 0 \/ l * l < 4 * d * d * b
    ELSE LET r == b - a - d * d IN r > 0 /\ 4 * d * d * a < r * r

Abs(n) == IF n < 0 THEN -n ELSE n

RECURSIVE Gcd(_, _)
Gcd(a, b) == IF b = 0 THEN a ELSE Gcd(b, a % b)

\* metric = dist + dy * 0.5 of (current, potential), kept as its two terms:
\* dx and dy in doubled coordinates (dx > 0, dy >= 0).
Metric(current, potential) ==
  [dx |-> current.x2 - potential.x2,
   dy |-> Abs(current.y2 - potential.y2)]

\* 2 * metric / g = sqrt(4 * (dx*dx + dy*dy)) / g + dy / g. The comparison of
\* two metrics does not change when both are divided by a common g > 0.
ScaledDist2(m, g) == 4 * ((m.dx \div g) * (m.dx \div g) + (m.dy \div g) * (m.dy \div g))

\* The comparison of the inner loop reversed.
MetricGreater(m, n) ==
  LET g == Gcd(Gcd(m.dx, m.dy), Gcd(n.dx, n.dy)) IN
    SqrtSumLess(ScaledDist2(n, g), n.dy \div g, ScaledDist2(m, g), m.dy \div g)

\* m < n for two metrics, compared exactly.
MetricLess(m, n) ==
  LET g == Gcd(Gcd(m.dx, m.dy), Gcd(n.dx, n.dy)) IN
    SqrtSumLess(ScaledDist2(m, g), m.dy \div g, ScaledDist2(n, g), n.dy \div g)

\* if (dx <= 0) continue
ToTheLeft(current, potential) == current.x2 - potential.x2 > 0

\* The inner loop taking the later of two potentials of equal metric.
RECURSIVE BestParentFromLast(_, _, _, _)
BestParentFromLast(cands, cur, j, best) ==
  IF j >= cur THEN best
  ELSE LET current == cands[cur + 1]
           potential == cands[j + 1]
       IN IF ~ToTheLeft(current, potential)
          THEN BestParentFromLast(cands, cur, j + 1, best)
          ELSE IF best = -1
                  \/ ~MetricLess(Metric(current, cands[best + 1]),
                                 Metric(current, potential))
               THEN BestParentFromLast(cands, cur, j + 1, j)
               ELSE BestParentFromLast(cands, cur, j + 1, best)

\* The inner loop from j on (0-based); best is the 0-based index of
\* bestParent, -1 for null (minMetric = Infinity).
RECURSIVE BestParentFrom(_, _, _, _)
BestParentFrom(cands, cur, j, best) ==
  IF j >= cur THEN best
  ELSE LET current == cands[cur + 1]
           potential == cands[j + 1]
       IN IF ~ToTheLeft(current, potential)
          THEN BestParentFrom(cands, cur, j + 1, best)
          ELSE IF best = -1
                  \/ MetricLess(Metric(current, potential),
                                Metric(current, cands[best + 1]))
               THEN BestParentFrom(cands, cur, j + 1, j)
               ELSE BestParentFrom(cands, cur, j + 1, best)

\* The inner loop finding nobody.
BestParentNone(cands, cur) == -1

BestParent(cands, cur) == BestParentFrom(cands, cur, 0, -1)

\* ---------------------------------------------------------------- assembly

\* candidates.filter(c => !hasParent.has(c.id)), then roots.sort by x.
Roots(cands, hp) == SortBy(SelectSeq(cands, LAMBDA c : c.id \notin hp), "x")

\* The root taken from the tail of the sorted candidates.
SelectRootLast(cands, hp) == cands[Len(cands)]

\* The root taken from the head of the sorted candidates whatever hasParent.
SelectRootFirst(cands, hp) == cands[1]

SelectRoot(cands, hp) ==
  IF Len(Roots(cands, hp)) > 0 THEN Roots(cands, hp)[1] ELSE cands[1]

\* candidates.find(n => n.id === id)
FindById(cands, id) ==
  LET hits == {k \in 1..Len(cands) : cands[k].id = id} IN
    IF hits = {} THEN Null ELSE cands[CHOOSE k \in hits : \A h \in hits : k <= h]

\* childrenNodes left in the order of the adjacency list.
ChildrenNodesUnsorted(adj, cands, c) ==
  LET ids == AdjGet(adj, c.id)
      found == [k \in 1..Len(ids) |-> FindById(cands, ids[k])]
  IN SelectSeq(found, LAMBDA n : n # Null)

\* childrenNodes of buildNode, sorted by y.
ChildrenNodes(adj, cands, c) ==
  LET ids == AdjGet(adj, c.id)
      found == [k \in 1..Len(ids) |-> FindById(cands, ids[k])]
  IN SortBy(SelectSeq(found, LAMBDA n : n # Null), "y")

\* The engine's call stack holds more frames than any acyclic adjacency over
\* the scanned candidates can nest.
StackLimit == MaxScan + 2

\* buildNode(c) at call depth `depth` exceeds the call stack (RangeError).
RECURSIVE Overflows(_, _, _, _)
Overflows(adj, cands, c, depth) ==
  \/ depth > StackLimit
  \/ LET ch == ChildrenNodes(adj, cands, c) IN
       \E k \in 1..Len(ch) : Overflows(adj, cands, ch[k], depth + 1)

\* buildNode without the recursion: the children are made leaves.
buildNodeShallow(adj, cands, c) ==
  LET ch == ChildrenNodes(adj, cands, c) IN
    [name |-> c.text,
     children |-> [k \in 1..Len(ch) |-> [name |-> ch[k].text, children |-> <<>>]]]

RECURSIVE buildNode(_, _, _)
buildNode(adj, cands, c) ==
  LET ch == ChildrenNodes(adj, cands, c) IN
    [name |-> c.text,
     children |-> [k \in 1..Len(ch) |-> buildNode(adj, cands, ch[k])]]

\* ---------------------------------------------------------------- surface

Rect(l, t, w, h) == [left |-> l, top |-> t, width |-> w, height |-> h]

Element(rect, text) ==
  [rect |-> rect, visibility |-> "visible", display |-> "block",
   opacity |-> 100, fontSize |-> 14, textContent |-> text]

\* A 40 x 20 px label centred on (cx, cy), in pixels.
Label(cx, cy, text) == Element(Rect(Px(cx - 20), Px(cy - 10), Px(40), Px(20)), text)

Pt(x, y) == [x |-> Px(x), y |-> Px(y)]

\* An elbow connector drawn from p to q under an identity CTM: its box spans
\* the two points and its length is the sum of the two legs.
Stroke(p, q) ==
  [width |-> Abs(q.x - p.x), height |-> Abs(q.y - p.y),
   hasTotalLength |-> TRUE, throws |-> FALSE,
   len |-> Abs(q.x - p.x) + Abs(q.y - p.y), ctm |-> TRUE,
   pStart |-> p, pEnd |-> q]

Strokes(points) ==
  {Stroke(pq[1], pq[2]) : pq \in {pq \in points \X points : pq[1] # pq[2]}}

\* Three labels on one row, centres at x = 0, 100, 200.
RowPoints == {Pt(0, 0), Pt(100, 0), Pt(200, 0)}

RowSurface ==
  [elements |-> {Label(0, 0, <<"a">>), Label(100, 0, <<"b">>),
                 Label(200, 0, <<"c">>)},
   paths |-> Strokes(RowPoints) \cup {Stroke(Pt(-15, 0), Pt(15, 0))}]

\* Three labels stacked in one column (equal centre x) and one to their left,
\* with strokes between the stacked labels and between the left and the
\* middle one.
ColumnPoints == {Pt(100, 0), Pt(100, 100), Pt(100, 200)}

ColumnSurface ==
  [elements |-> {Label(0, 100, <<"r">>), Label(100, 0, <<"t">>),
                 Label(100, 100, <<"m">>), Label(100, 200, <<"b">>)},
   paths |-> Strokes(ColumnPoints) \cup Strokes({Pt(0, 100), Pt(100, 100)})]

\* Two labels and strokes that end around 100 px from the left one: on the
\* row at 99.5, 100 and 100.5 px from its box, and diagonally at (60, 80).
NearPoints ==
  {[x |-> Px(-120) + 1, y |-> Px(0)], Pt(-120, 0),
   [x |-> Px(-120) - 1, y |-> Px(0)], Pt(-80, -90)}

ThresholdSurface ==
  [elements |-> {Label(0, 0, <<"a">>), Label(100, 0, <<"b">>)},
   paths |->
     {Stroke(p, Pt(100, 0)) : p \in NearPoints}
       \cup {Stroke(Pt(100, 0), p) : p \in NearPoints}
       \cup {Stroke(Pt(0, 0), Pt(100, 0)), Stroke(Pt(100, 0), Pt(0, 0)),
             Stroke(Pt(0, 0), Pt(8, 8)),
             [Stroke(Pt(0, 0), Pt(100, 0)) EXCEPT !.len = Px(5)],
             [Stroke(Pt(0, 0), Pt(100, 0)) EXCEPT !.hasTotalLength = FALSE],
             [Stroke(Pt(0, 0), Pt(100, 0)) EXCEPT !.throws = TRUE],
             [Stroke(Pt(0, 0), Pt(100, 0)) EXCEPT !.ctm = FALSE]}]

\* Text fragments: the same label on neighbouring half pixels, padded with
\* white space, glyph-only and number-only fragments, and elements the
\* visual filters drop.
TextRect(l, t) == Rect(l, t, Px(40), Px(20))

TextSurface ==
  [elements |->
     {Element(TextRect(0, 0), <<"a">>),
      Element(TextRect(-1, 0), <<"a">>),
      Element(TextRect(1, 0), <<"a">>),
      Element(TextRect(0, 0), <<" ", "a", " ">>),
      Element(TextRect(0, 0), <<"a", " ", "b">>),
      Element(TextRect(0, 0), <<RightArrow>>),
      Element(TextRect(0, 0), <<"<">>),
      Element(TextRect(0, 0), <<">">>),
      Element(TextRect(0, 0), <<"+">>),
      Element(TextRect(0, 0), <<"-">>),
      Element(TextRect(0, 0), <<BlackCircle>>),
      Element(TextRect(0, 0), <<Bullet>>),
      Element(TextRect(0, 0), <<"7">>),
      Element(TextRect(0, 0), <<" ", "4", "2">>),
      Element(TextRect(0, 0), <<"-", ">">>),
      Element(TextRect(0, 0), <<" ", " ">>),
      Element(TextRect(0, 0), <<>>),
      [Element(TextRect(0, 0), <<"h">>) EXCEPT !.visibility = "hidden"],
      [Element(TextRect(0, 0), <<"h">>) EXCEPT !.display = "none"],
      [Element(TextRect(0, 0), <<"h">>) EXCEPT !.opacity = 5],
      [Element(Rect(0, 0, Px(40), Px(8)), <<"h">>) EXCEPT !.fontSize = 8],
      Element(Rect(0, 0, 0, Px(20)), <<"h">>)},
   paths |-> {Stroke(Pt(0, 0), Pt(20, 10))}]

\* Two overlapping labels and a third one apart.  (15, 0) lies inside both
\* overlapping boxes, (65, 0) lies 15 px from the second and from the third
\* box, (100, 0) inside the third only and (221, 0) is 101 px from every box.
\* One more stroke is 7 px long, from inside the first box only to (15, 0).
OverlapPoints == {Pt(15, 0), Pt(65, 0), Pt(100, 0), Pt(221, 0)}

OverlapSurface ==
  [elements |-> {Label(0, 0, <<"a">>), Label(30, 5, <<"b">>),
                 Label(100, 0, <<"c">>)},
   paths |-> Strokes(OverlapPoints) \cup {Stroke(Pt(8, 0), Pt(15, 0))}]

\* Labels fanned out to the left of "c": "a" and "b" mirror each other about
\* its row, "d" is nearer to it in a straight line but further off the row.
FanSurface ==
  [elements |-> {Label(100, -50, <<"a">>), Label(100, 50, <<"b">>),
                 Label(150, 90, <<"d">>), Label(200, 0, <<"c">>)},
   paths |-> Strokes({Pt(100, 50), Pt(200, 0)})]

\* Text fragments around the length limit, bare and padded with white space.
Repeat(ch, n) == [k \in 1..n |-> ch]

LongTextSurface ==
  [elements |->
     {Element(TextRect(0, 0), Repeat("x", MaxTextLength - 1)),
      Element(TextRect(0, 0), Repeat("x", MaxTextLength)),
      Element(TextRect(0, 0), Repeat("x", MaxTextLength + 1)),
      Element(TextRect(0, 0), <<" ">> \o Repeat("x", MaxTextLength - 1) \o <<" ">>),
      Element(TextRect(0, 0), <<" ">> \o Repeat("x", MaxTextLength)),
      Element(TextRect(0, 0), <<"a">>)},
   paths |-> {Stroke(Pt(0, 0), Pt(20, 10))}]

Surfaces ==
  {RowSurface, ColumnSurface, ThresholdSurface, TextSurface, OverlapSurface,
   FanSurface, LongTextSurface}

\* ---------------------------------------------------- text selection parser

\* text.split('\n')
RECURSIVE SplitLines(_)
SplitLines(text) ==
  LET feeds == {k \in 1..Len(text) : text[k] = "\n"} IN
    IF feeds = {} THEN <<text>>
    ELSE LET k == CHOOSE k \in feeds : \A f \in feeds : k <= f IN
           <<SubSeq(text, 1, k - 1)>> \o SplitLines(SubSeq(text, k + 1, Len(text)))

\* text.split('\n').filter(l => l.trim().length > 0)
Lines(text) == SelectSeq(SplitLines(text), LAMBDA l : Trim(l) # <<>>)

\* The length of the longest prefix of s made of characters of `class`.
RECURSIVE LeadingRun(_, _)
LeadingRun(s, class) ==
  IF s # <<>> /\ Head(s) \in class THEN 1 + LeadingRun(Tail(s), class) ELSE 0

Drop(s, n) == SubSeq(s, n + 1, Len(s))

\* line.match(/^(#+)\s/): the number of # matched, 0 for no match.
HeaderMatch(line) ==
  LET h == LeadingRun(line, {"#"}) IN
    IF h > 0 /\ Len(line) > h /\ line[h + 1] \in WhiteSpace THEN h ELSE 0

detectIndentLevel(line) ==
  IF HeaderMatch(line) > 0 THEN HeaderMatch(line) - 1
  ELSE LET leadingSpaces == LeadingRun(line, WhiteSpace)
           leadingTabs == LeadingRun(line, {"\t"})
       IN IF leadingTabs > 0 THEN leadingTabs ELSE leadingSpaces \div 2

\* .replace(/^[#]+\s/, '')
RemoveHeader(line) ==
  IF HeaderMatch(line) > 0 THEN Drop(line, HeaderMatch(line) + 1) ELSE line

\* .replace(/^[\s\t]*[-*+]\s/, '')
RemoveBullet(line) ==
  LET w == LeadingRun(line, WhiteSpace) IN
    IF Len(line) >= w + 2 /\ line[w + 1] \in {"-", "*", "+"}
       /\ line[w + 2] \in WhiteSpace
    THEN Drop(line, w + 2)
    ELSE line

\* .replace(/^[\s\t]*\d+\.\s/, '')
RemoveNumbering(line) ==
  LET w == LeadingRun(line, WhiteSpace)
      d == LeadingRun(Drop(line, w), Digit)
  IN IF d > 0 /\ Len(line) >= w + d + 2 /\ line[w + d + 1] = "."
        /\ line[w + d + 2] \in WhiteSpace
     THEN Drop(line, w + d + 2)
     ELSE line

CleanName(line) == Trim(RemoveNumbering(RemoveBullet(RemoveHeader(line))))

\* The stack popped only above entries of a strictly greater level.
RECURSIVE PopToStrict(_, _, _)
PopToStrict(stack, level, floor) ==
  IF Len(stack) > floor /\ stack[Len(stack)].level > level
  THEN PopToStrict(SubSeq(stack, 1, Len(stack) - 1), level, floor)
  ELSE stack

\* while (stack.length > floor && top.level >= level) stack.pop()
RECURSIVE PopTo(_, _, _)
PopTo(stack, level, floor) ==
  IF Len(stack) > floor /\ stack[Len(stack)].level >= level
  THEN PopTo(SubSeq(stack, 1, Len(stack) - 1), level, floor)
  ELSE stack

\* The nodes made so far are kept in creation order, each with the index of
\* its parent (0: the root the parser starts from); the stack holds
\* [level, node].  One node is attached under the top of the stack after
\* popping, and pushed.
Attach(st, name, level, floor) ==
  LET popped == PopTo(st.stack, level, floor)
      parent == IF Len(popped) > 0 THEN popped[Len(popped)].node ELSE 0
  IN [nodes |-> Append(st.nodes, [name |-> name, parent |-> parent]),
      stack |-> Append(popped, [level |-> level, node |-> Len(st.nodes) + 1])]

\* The tree of node k: its children are the nodes attached to it, in the
\* order they were pushed.
RECURSIVE SubTree(_, _)
SubTree(nodes, k) ==
  LET kids == SelectSeq([j \in 1..Len(nodes) |-> j], LAMBDA j : nodes[j].parent = k) IN
    [name |-> IF k = 0 THEN <<>> ELSE nodes[k].name,
     children |-> [c \in 1..Len(kids) |-> SubTree(nodes, kids[c])]]

\* One iteration of the loop over the lines.
ParseLine(st, line) ==
  IF CleanName(line) = <<>> THEN st
  ELSE Attach(st, CleanName(line), detectIndentLevel(line), 1)

RECURSIVE ParseLines(_, _)
ParseLines(st, lines) ==
  IF lines = <<>> THEN st ELSE ParseLines(ParseLine(st, Head(lines)), Tail(lines))

\* The name of the node that groups several top-level lines, by code point.
SelectedNotes == <<"U+9078", "U+629E", "U+3057", "U+305F", "U+30E1", "U+30E2">>

\* The parser with no placeholder: null when no line is kept.
parseTextStructureNoPlaceholder(text) ==
  IF Lines(text) = <<>> THEN Null
  ELSE LET st == ParseLines([nodes |-> <<>>,
                             stack |-> <<[level |-> -1, node |-> 0]>>],
                            Lines(text))
           top == SubTree(st.nodes, 0).children
       IN IF Len(top) = 1 /\ Len(top[1].children) > 0 THEN top[1]
          ELSE IF Len(top) > 1 THEN [name |-> SelectedNotes, children |-> top]
          ELSE IF Len(top) = 1 THEN top[1]
          ELSE Null

NoContent == <<"N", "o", " ", "C", "o", "n", "t", "e", "n", "t">>

parseTextStructure(text) ==
  IF Lines(text) = <<>> THEN Null
  ELSE LET st == ParseLines([nodes |-> <<>>,
                             stack |-> <<[level |-> -1, node |-> 0]>>],
                            Lines(text))
           top == SubTree(st.nodes, 0).children
       IN IF Len(top) = 1 /\ Len(top[1].children) > 0 THEN top[1]
          ELSE IF Len(top) > 1 THEN [name |-> SelectedNotes, children |-> top]
          ELSE IF Len(top) = 1 THEN top[1]
          ELSE [name |-> NoContent, children |-> <<>>]

\* ------------------------------------------------------- heading hierarchy

\* s.replace(pattern, ''): the first occurrence of the pattern is removed.
RemoveFirst(s, pattern) ==
  LET at == {k \in 1..(Len(s) - Len(pattern) + 1) :
               SubSeq(s, k, k + Len(pattern) - 1) = pattern}
  IN IF at = {} THEN s
     ELSE LET k == CHOOSE k \in at : \A a \in at : k <= a IN
            SubSeq(s, 1, k - 1) \o Drop(s, k + Len(pattern) - 1)

TitleSuffix ==
  <<" ", "-", " ", "N", "o", "t", "e", "b", "o", "o", "k", "L", "M">>

WebPage == <<"W", "e", "b", " ", "P", "a", "g", "e">>

MaxHeaderLength == 150

\* document.title.replace(" - NotebookLM", "").trim() || "Web Page"
RootName(title) ==
  IF Trim(RemoveFirst(title, TitleSuffix)) = <<>> THEN WebPage
  ELSE Trim(RemoveFirst(title, TitleSuffix))

\* One callback of headers.forEach; a header is [level, innerText].
ScrapeHeader(st, header) ==
  IF Trim(header.innerText) = <<>> \/ Len(Trim(header.innerText)) > MaxHeaderLength
  THEN st
  ELSE Attach(st, Trim(header.innerText), header.level, 0)

RECURSIVE ScrapeHeaderList(_, _)
ScrapeHeaderList(st, headers) ==
  IF headers = <<>> THEN st
  ELSE ScrapeHeaderList(ScrapeHeader(st, Head(headers)), Tail(headers))

\* scrapeHeaders over a document [title, headers].
scrapeHeaders(doc) ==
  IF Len(doc.headers) = 0 THEN Null
  ELSE LET st == ScrapeHeaderList([nodes |-> <<>>,
                                   stack |-> <<[level |-> 0, node |-> 0]>>],
                                  doc.headers)
           children == SubTree(st.nodes, 0).children
       IN IF Len(children) = 0 THEN Null
          ELSE [name |-> RootName(doc.title), children |-> children]

\* --------------------------------------------------------------- the pass

\* The elements and paths a pass has met, in order; kept for the first of
\* two successive passes only.
NothingScanned == [elements |-> <<>>, paths |-> <<>>]

\* No message is sent to the background script.
BackgroundIdle ==
  /\ messages = <<>>
  /\ delivered = 0
  /\ returns = <<>>
  /\ writing = {}
  /\ callbacks = {}
  /\ storage = Null
  /\ tabs = <<>>
  /\ replies = <<>>
  /\ effects = <<>>

\* No message has come to the content script.
ListenerIdle ==
  /\ request = Null
  /\ responses = <<>>
  /\ listenerPc = "idle"

\* parseTextStructure is not running.
ParserIdle ==
  /\ parseText = <<>>
  /\ parseIndex = 0
  /\ parseState = [nodes |-> <<>>, stack |-> <<>>]
  /\ parseResult = Null
  /\ parsePc = "idle"

Init ==
  /\ surface \in Surfaces
  /\ pc = "collect"
  /\ nScanned = 0
  /\ el = Null
  /\ candidatesMap = <<>>
  /\ idCounter = 0
  /\ candidates = <<>>
  /\ nPaths = 0
  /\ path = Null
  /\ connections = <<>>
  /\ processedPairs = {}
  /\ adjacency = EmptyMap
  /\ hasParent = {}
  /\ i = 0
  /\ rootNode = Null
  /\ finalTree = Null
  /\ outcome = "running"
  /\ stage = "pass"
  /\ calls = <<>>
  /\ pageResult = Null
  /\ invocation = 0
  /\ scanned = NothingScanned
  /\ earlier = Null
  /\ ParserIdle
  /\ ListenerIdle
  /\ BackgroundIdle

\* The element the scan meets next.  A pass may meet the elements of the
\* surface in any order; the second of two successive passes over an
\* unchanged surface meets the elements the first one met, in the same order.
NextElements ==
  IF invocation = 2
  THEN {scanned.elements[k] : k \in {nScanned + 1} \cap 1..Len(scanned.elements)}
  ELSE surface.elements

\* The same for the svg paths.
NextPaths ==
  IF invocation = 2
  THEN {scanned.paths[k] : k \in {nPaths + 1} \cap 1..Len(scanned.paths)}
  ELSE surface.paths

\* The scan of the elements (of the paths) has come to its end.
ElementsExhausted == invocation = 2 => nScanned = Len(scanned.elements)
PathsExhausted == invocation = 2 => nPaths = Len(scanned.paths)

\* candidatesMap after processElement(e), the next id being `id`.
Collected(m, id, e) ==
  IF Accepted(e) /\ ~MapHas(m, DedupeKey(e.rect, TextOf(e)))
  THEN Append(m, [key |-> DedupeKey(e.rect, TextOf(e)),
                  value |-> NodeCandidate(id, TextOf(e), e.rect)])
  ELSE m

\* processElement taking an id for every element scanned.
ProcessElementCountingAll ==
  /\ pc = "collect"
  /\ nScanned < MaxScan
  /\ \E e \in NextElements :
       /\ el' = e
       /\ candidatesMap' = Collected(candidatesMap, idCounter, e)
       /\ scanned' = IF invocation = 1
                     THEN [scanned EXCEPT !.elements = Append(@, e)]
                     ELSE scanned
  /\ idCounter' = idCounter + 1
  /\ nScanned' = nScanned + 1
  /\ UNCHANGED <<otherVars, pageVars, invocation, earlier,
                 surface, pc, candidates, nPaths, path, connections,
                 processedPairs, adjacency, hasParent, i, rootNode, finalTree,
                 outcome>>

\* processElement on one scanned element.
ProcessElement ==
  /\ pc = "collect"
  /\ nScanned < MaxScan
  /\ \E e \in NextElements :
       /\ el' = e
       /\ candidatesMap' = Collected(candidatesMap, idCounter, e)
       /\ scanned' = IF invocation = 1
                     THEN [scanned EXCEPT !.elements = Append(@, e)]
                     ELSE scanned
  /\ idCounter' = idCounter + (Len(candidatesMap') - Len(candidatesMap))
  /\ nScanned' = nScanned + 1
  /\ UNCHANGED <<otherVars, pageVars, invocation, earlier,
                 surface, pc, candidates, nPaths, path, connections,
                 processedPairs, adjacency, hasParent, i, rootNode, finalTree,
                 outcome>>

\* The empty case answered with an empty tree object.
ReturnEmptyTree ==
  /\ pc = "collect"
  /\ ElementsExhausted
  /\ Len(candidatesMap) = 0
  /\ candidates' = MapValues(candidatesMap)
  /\ el' = Null
  /\ finalTree' = [name |-> <<>>, children |-> <<>>]
  /\ outcome' = "tree"
  /\ pc' = "done"
  /\ UNCHANGED <<otherVars, pageVars, invocation, earlier, scanned,
                 surface, nScanned, candidatesMap, idCounter, nPaths, path,
                 connections, processedPairs, adjacency, hasParent, i, rootNode>>

\* if (candidates.length === 0) return null
ReturnNull ==
  /\ pc = "collect"
  /\ ElementsExhausted
  /\ Len(candidatesMap) = 0
  /\ candidates' = MapValues(candidatesMap)
  /\ el' = Null
  /\ finalTree' = Null
  /\ outcome' = "null"
  /\ pc' = "done"
  /\ UNCHANGED <<otherVars, pageVars, invocation, earlier, scanned,
                 surface, nScanned, candidatesMap, idCounter, nPaths, path,
                 connections, processedPairs, adjacency, hasParent, i, rootNode>>

\* const candidates = Array.from(candidatesMap.values())
CollectDone ==
  /\ pc = "collect"
  /\ ElementsExhausted
  /\ Len(candidatesMap) > 0
  /\ candidates' = MapValues(candidatesMap)
  /\ el' = Null
  /\ pc' = "edges"
  /\ UNCHANGED <<otherVars, pageVars, invocation, earlier, scanned,
                 surface, nScanned, candidatesMap, idCounter, nPaths, path,
                 connections, processedPairs, adjacency, hasParent, i, rootNode,
                 finalTree, outcome>>

\* The connection one path adds, as a sequence of zero or one edges.
NewConnections(cands, pairs, p) ==
  IF Connects(cands, p)
     /\ PairKey(StartNode(cands, p).id, EndNode(cands, p).id) \notin pairs
  THEN <<Direction(StartNode(cands, p), EndNode(cands, p))>>
  ELSE <<>>

\* One iteration of the 'svg path' loop.
ProcessPath ==
  /\ pc = "edges"
  /\ nPaths < MaxPaths
  /\ \E p \in NextPaths :
       /\ path' = p
       /\ scanned' = IF invocation = 1
                     THEN [scanned EXCEPT !.paths = Append(@, p)]
                     ELSE scanned
       /\ connections' = connections \o NewConnections(candidates, processedPairs, p)
       /\ processedPairs' =
            IF NewConnections(candidates, processedPairs, p) = <<>>
            THEN processedPairs
            ELSE processedPairs \cup
                   {PairKey(StartNode(candidates, p).id, EndNode(candidates, p).id)}
  /\ nPaths' = nPaths + 1
  /\ UNCHANGED <<otherVars, pageVars, invocation, earlier,
                 surface, pc, nScanned, el, candidatesMap, idCounter, candidates,
                 adjacency, hasParent, i, rootNode, finalTree, outcome>>

EdgesDone ==
  /\ pc = "edges"
  /\ PathsExhausted
  /\ pc' = "graph"
  /\ path' = Null
  /\ i' = 0
  /\ UNCHANGED <<otherVars, pageVars, invocation, earlier, scanned,
                 surface, nScanned, el, candidatesMap, idCounter, candidates,
                 nPaths, connections, processedPairs, adjacency, hasParent,
                 rootNode, finalTree, outcome>>

\* The callback without the hasParent.add(conn.target).
AddConnectionUnmarked ==
  /\ pc = "graph"
  /\ i < Len(connections)
  /\ adjacency' = AdjPush(adjacency, connections[i + 1].source, connections[i + 1].target)
  /\ hasParent' = hasParent
  /\ i' = i + 1
  /\ UNCHANGED <<otherVars, pageVars, invocation, earlier, scanned,
                 surface, pc, nScanned, el, candidatesMap, idCounter, candidates,
                 nPaths, path, connections, processedPairs, rootNode, finalTree,
                 outcome>>

\* One callback of connections.forEach.
AddConnection ==
  /\ pc = "graph"
  /\ i < Len(connections)
  /\ adjacency' = AdjPush(adjacency, connections[i + 1].source, connections[i + 1].target)
  /\ hasParent' = hasParent \cup {connections[i + 1].target}
  /\ i' = i + 1
  /\ UNCHANGED <<otherVars, pageVars, invocation, earlier, scanned,
                 surface, pc, nScanned, el, candidatesMap, idCounter, candidates,
                 nPaths, path, connections, processedPairs, rootNode, finalTree,
                 outcome>>

\* candidates.sort((a, b) => a.x - b.x), and the fallback loop starts at 1.
SortCandidates ==
  /\ pc = "graph"
  /\ i = Len(connections)
  /\ candidates' = SortBy(candidates, "x")
  /\ i' = 1
  /\ pc' = "fallback"
  /\ UNCHANGED <<otherVars, pageVars, invocation, earlier, scanned,
                 surface, nScanned, el, candidatesMap, idCounter, nPaths, path,
                 connections, processedPairs, adjacency, hasParent, rootNode,
                 finalTree, outcome>>

\* The link made whether or not the candidate has a parent.
LinksAnyway(cands, hp, cur) == BestParent(cands, cur) # -1

\* The fallback loop links candidates[cur] when it has no parent and a
\* bestParent exists.
Links(cands, hp, cur) ==
  cands[cur + 1].id \notin hp /\ BestParent(cands, cur) # -1

\* One iteration of the fallback loop.
FallbackStep ==
  /\ pc = "fallback"
  /\ i < Len(candidates)
  /\ IF Links(candidates, hasParent, i)
     THEN /\ adjacency' = AdjPush(adjacency,
                                  candidates[BestParent(candidates, i) + 1].id,
                                  candidates[i + 1].id)
          /\ hasParent' = hasParent \cup {candidates[i + 1].id}
     ELSE UNCHANGED <<otherVars, adjacency, hasParent>>
  /\ i' = i + 1
  /\ UNCHANGED <<otherVars, pageVars, invocation, earlier, scanned,
                 surface, pc, nScanned, el, candidatesMap, idCounter, candidates,
                 nPaths, path, connections, processedPairs, rootNode, finalTree,
                 outcome>>

\* Root selection and buildNode(rootNode); a recursion that exceeds the call
\* stack leaves scrapeVisualGraph by a RangeError.
Assemble ==
  /\ pc = "fallback"
  /\ i >= Len(candidates)
  /\ rootNode' = SelectRoot(candidates, hasParent)
  /\ IF Overflows(adjacency, candidates, rootNode', 1)
     THEN finalTree' = Null /\ outcome' = "RangeError"
     ELSE finalTree' = buildNode(adjacency, candidates, rootNode') /\ outcome' = "tree"
  /\ pc' = "done"
  /\ UNCHANGED <<otherVars, pageVars, invocation, earlier, scanned,
                 surface, nScanned, el, candidatesMap, idCounter, candidates,
                 nPaths, path, connections, processedPairs, adjacency, hasParent, i>>

Next ==
  \/ ProcessElement
  \/ ReturnNull
  \/ CollectDone
  \/ ProcessPath
  \/ EdgesDone
  \/ AddConnection
  \/ SortCandidates
  \/ FallbackStep
  \/ Assemble

Spec == Init /\ [][Next]_vars

\* ------------------------------------------------------ scrapePageStructure

\* A page adds to a surface the text the user has selected (empty: nothing
\* is selected) and the document [title, headers].
Page(surf, selection, document) ==
  [elements |-> surf.elements, paths |-> surf.paths,
   selection |-> selection, document |-> document]

\* Two labels joined by a stroke, and a glyph.
DiagramSurface ==
  [elements |-> {Label(0, 0, <<"a">>), Label(100, 0, <<"b">>),
                 Element(TextRect(0, 0), <<"+">>)},
   paths |-> {Stroke(Pt(100, 0), Pt(0, 0)), Stroke(Pt(0, 0), Pt(300, 0))}]

\* Nothing a candidate is made from.
BlankSurface ==
  [elements |-> {Element(TextRect(0, 0), <<"+">>),
                 [Element(TextRect(0, 0), <<"h">>) EXCEPT !.display = "none"]},
   paths |-> {Stroke(Pt(0, 0), Pt(20, 10))}]

\* Three labels in one column and a stroke round each pair.
CycleSurface ==
  [elements |-> {Label(100, 0, <<"t">>), Label(100, 100, <<"m">>),
                 Label(100, 200, <<"b">>)},
   paths |-> {Stroke(Pt(100, 0), Pt(100, 100)), Stroke(Pt(100, 100), Pt(100, 200)),
              Stroke(Pt(100, 200), Pt(100, 0))}]

\* The characters the short selections are written with.
SelectionChars == {"-", " ", "\n", "a", "#", "1", "."}

\* if (selectedText && selectedText.trim().length > 0)
Selected(selection) == selection # <<>> /\ Trim(selection) # <<>>

\* Nothing selected, white space selected, an outline of two lines, and every
\* selection of three characters with something in it but white space.
Selections ==
  {<<>>,
   <<" ", "\n", "\t">>,
   <<"-", " ">>,
   <<"-", " ", "a", "\n", " ", " ", "-", " ", "b">>}
  \cup {t \in {<<a, b, c>> : a \in SelectionChars, b \in SelectionChars,
                              c \in SelectionChars} : Selected(t)}

Documents ==
  {[title |-> <<"D">> \o TitleSuffix, headers |-> <<>>],
   [title |-> <<"D">> \o TitleSuffix, headers |-> <<[level |-> 2, innerText |-> <<" ">>]>>],
   [title |-> <<"D">> \o TitleSuffix,
    headers |-> <<[level |-> 1, innerText |-> <<"a">>],
                  [level |-> 2, innerText |-> <<"b">>]>>]}

Pages ==
  {Page(surf, selection, document) :
     surf \in {DiagramSurface, BlankSurface, CycleSurface},
     selection \in Selections, document \in Documents}

\* scrapePageStructure is entered; scrapeVisualGraph is not running.
InitPage ==
  /\ surface \in Pages
  /\ pc = "idle"
  /\ nScanned = 0
  /\ el = Null
  /\ candidatesMap = <<>>
  /\ idCounter = 0
  /\ candidates = <<>>
  /\ nPaths = 0
  /\ path = Null
  /\ connections = <<>>
  /\ processedPairs = {}
  /\ adjacency = EmptyMap
  /\ hasParent = {}
  /\ i = 0
  /\ rootNode = Null
  /\ finalTree = Null
  /\ outcome = "running"
  /\ stage = "selection"
  /\ calls = <<>>
  /\ pageResult = Null
  /\ invocation = 0
  /\ scanned = NothingScanned
  /\ earlier = Null
  /\ ParserIdle
  /\ ListenerIdle
  /\ BackgroundIdle

\* 1. User Selection: the parser's tree is returned; with no usable
\* selection, or no tree, scrapeVisualGraph is called.
ParseSelection ==
  /\ stage = "selection"
  /\ IF Selected(surface.selection)
        /\ parseTextStructure(surface.selection) # Null
     THEN /\ calls' = Append(calls, "parseTextStructure")
          /\ pageResult' = parseTextStructure(surface.selection)
          /\ stage' = "returned"
          /\ pc' = pc
     ELSE /\ calls' =
               (IF Selected(surface.selection)
                THEN Append(calls, "parseTextStructure")
                ELSE calls) \o <<"scrapeVisualGraph">>
          /\ pageResult' = pageResult
          /\ stage' = "visual"
          /\ pc' = "collect"
  /\ UNCHANGED <<otherVars, invocation, earlier, scanned, surface, nScanned, el,
                 candidatesMap, idCounter, candidates, nPaths, path, connections,
                 processedPairs, adjacency, hasParent, i, rootNode, finalTree,
                 outcome>>

\* The headers tried whatever scrapeVisualGraph returned.
VisualGraphSkipped ==
  /\ stage = "visual"
  /\ pc = "done"
  /\ stage' = IF outcome = "RangeError" THEN "threw" ELSE "headers"
  /\ pageResult' = pageResult
  /\ UNCHANGED <<otherVars, calls, invocation, earlier, scanned, surface, pc, nScanned, el,
                 candidatesMap, idCounter, candidates, nPaths, path, connections,
                 processedPairs, adjacency, hasParent, i, rootNode, finalTree,
                 outcome>>

\* 2. Visual Graph: a tree is returned, null goes on to the headers, and an
\* exception leaves scrapePageStructure.
VisualGraphDone ==
  /\ stage = "visual"
  /\ pc = "done"
  /\ stage' = CASE outcome = "tree" -> "returned"
                [] outcome = "null" -> "headers"
                [] outcome = "RangeError" -> "threw"
  /\ pageResult' = IF outcome = "tree" THEN finalTree ELSE pageResult
  /\ UNCHANGED <<otherVars, calls, invocation, earlier, scanned, surface, pc, nScanned, el,
                 candidatesMap, idCounter, candidates, nPaths, path, connections,
                 processedPairs, adjacency, hasParent, i, rootNode, finalTree,
                 outcome>>

\* 3. Headers: the result of scrapeHeaders, or null, is returned.
ScrapeHeaders ==
  /\ stage = "headers"
  /\ calls' = Append(calls, "scrapeHeaders")
  /\ pageResult' = scrapeHeaders(surface.document)
  /\ stage' = "returned"
  /\ UNCHANGED <<otherVars, invocation, earlier, scanned, surface, pc, nScanned, el,
                 candidatesMap, idCounter, candidates, nPaths, path, connections,
                 processedPairs, adjacency, hasParent, i, rootNode, finalTree,
                 outcome>>

NextPage ==
  \/ ParseSelection
  \/ VisualGraphDone
  \/ ScrapeHeaders
  \/ Next

SpecPage == InitPage /\ [][NextPage]_vars

\* ------------------------------------------------- two successive passes

\* The first of two passes over one surface; the elements and paths it meets
\* are kept for the second.
InitRetry ==
  /\ surface \in {DiagramSurface, CycleSurface}
  /\ pc = "collect"
  /\ nScanned = 0
  /\ el = Null
  /\ candidatesMap = <<>>
  /\ idCounter = 0
  /\ candidates = <<>>
  /\ nPaths = 0
  /\ path = Null
  /\ connections = <<>>
  /\ processedPairs = {}
  /\ adjacency = EmptyMap
  /\ hasParent = {}
  /\ i = 0
  /\ rootNode = Null
  /\ finalTree = Null
  /\ outcome = "running"
  /\ stage = "pass"
  /\ calls = <<>>
  /\ pageResult = Null
  /\ invocation = 1
  /\ scanned = NothingScanned
  /\ earlier = Null
  /\ ParserIdle
  /\ ListenerIdle
  /\ BackgroundIdle

\* The second call with the id counter kept from the first.
ReinvokeKeepingCounter ==
  /\ pc = "done"
  /\ invocation = 1
  /\ earlier' = [candidates |-> candidates, finalTree |-> finalTree,
                 outcome |-> outcome]
  /\ invocation' = 2
  /\ pc' = "collect"
  /\ nScanned' = 0
  /\ el' = Null
  /\ candidatesMap' = <<>>
  /\ candidates' = <<>>
  /\ nPaths' = 0
  /\ path' = Null
  /\ connections' = <<>>
  /\ processedPairs' = {}
  /\ adjacency' = EmptyMap
  /\ hasParent' = {}
  /\ i' = 0
  /\ rootNode' = Null
  /\ finalTree' = Null
  /\ outcome' = "running"
  /\ UNCHANGED <<otherVars, pageVars, scanned, surface, idCounter>>

\* scrapeVisualGraph is called again: candidatesMap, idCounter, connections,
\* processedPairs, adjacency and hasParent are locals of the call, made anew.
\* What the first call returned is kept aside.
Reinvoke ==
  /\ pc = "done"
  /\ invocation = 1
  /\ earlier' = [candidates |-> candidates, finalTree |-> finalTree,
                 outcome |-> outcome]
  /\ invocation' = 2
  /\ pc' = "collect"
  /\ nScanned' = 0
  /\ el' = Null
  /\ candidatesMap' = <<>>
  /\ idCounter' = 0
  /\ candidates' = <<>>
  /\ nPaths' = 0
  /\ path' = Null
  /\ connections' = <<>>
  /\ processedPairs' = {}
  /\ adjacency' = EmptyMap
  /\ hasParent' = {}
  /\ i' = 0
  /\ rootNode' = Null
  /\ finalTree' = Null
  /\ outcome' = "running"
  /\ UNCHANGED <<otherVars, pageVars, scanned, surface>>

NextRetry ==
  \/ Reinvoke
  \/ Next

SpecRetry == InitRetry /\ [][NextRetry]_vars

\* ------------------------------------------------ parseTextStructure by steps

\* Number of lines of a text given to parseTextStructure.
MaxLines == 3

\* Lines of the levels 0, 1 and 2 written with spaces, tabs and headers, a
\* bullet with nothing after it, and a line of white space.
OutlineLines ==
  {<<"a">>,
   <<" ", " ", "b">>,
   <<" ", " ", " ", "1", ".", " ", "b">>,
   <<" ", " ", " ", " ", "-", " ", "c">>,
   <<"#", " ", "d">>,
   <<"#", "#", " ", "e">>,
   <<"\t", "\t", "f">>,
   <<"-", " ">>,
   <<" ">>}

\* The lines joined by line feeds.
RECURSIVE JoinLines(_)
JoinLines(ls) ==
  IF Len(ls) = 1 THEN ls[1] ELSE ls[1] \o <<"\n">> \o JoinLines(Tail(ls))

OutlineTexts ==
  UNION {{JoinLines(ls) : ls \in [1..n -> OutlineLines]} : n \in 1..MaxLines}

\* Neither scrapeVisualGraph nor scrapePageStructure is running.
PageIdle ==
  /\ surface = BlankSurface
  /\ pc = "idle"
  /\ nScanned = 0
  /\ el = Null
  /\ candidatesMap = <<>>
  /\ idCounter = 0
  /\ candidates = <<>>
  /\ nPaths = 0
  /\ path = Null
  /\ connections = <<>>
  /\ processedPairs = {}
  /\ adjacency = EmptyMap
  /\ hasParent = {}
  /\ i = 0
  /\ rootNode = Null
  /\ finalTree = Null
  /\ outcome = "running"
  /\ stage = "pass"
  /\ calls = <<>>
  /\ pageResult = Null
  /\ invocation = 0
  /\ scanned = NothingScanned
  /\ earlier = Null

\* parseTextStructure is entered with a text.
InitParse ==
  /\ PageIdle
  /\ parseText \in OutlineTexts
  /\ parseIndex = 0
  /\ parseState = [nodes |-> <<>>, stack |-> <<>>]
  /\ parseResult = Null
  /\ parsePc = "entry"
  /\ ListenerIdle
  /\ BackgroundIdle

\* if (lines.length === 0) return null; otherwise the stack is made with the
\* virtual root on it.
ParseEntry ==
  /\ parsePc = "entry"
  /\ IF Lines(parseText) = <<>>
     THEN /\ parsePc' = "returned"
          /\ parseState' = parseState
     ELSE /\ parsePc' = "loop"
          /\ parseState' = [nodes |-> <<>>,
                            stack |-> <<[level |-> -1, node |-> 0]>>]
  /\ UNCHANGED <<parseText, parseIndex, parseResult>>

\* for (let i = 0; i < lines.length; i++): one iteration.
ParseStep ==
  /\ parsePc = "loop"
  /\ parseIndex < Len(Lines(parseText))
  /\ parseState' = ParseLine(parseState, Lines(parseText)[parseIndex + 1])
  /\ parseIndex' = parseIndex + 1
  /\ UNCHANGED <<parseText, parseResult, parsePc>>

\* The return logic: the only top-level node when it has children, the
\* grouping node over several top-level nodes, the only top-level node, or
\* the placeholder.
ParseReturned(st) ==
  LET top == SubTree(st.nodes, 0).children IN
    IF Len(top) = 1 /\ Len(top[1].children) > 0 THEN top[1]
    ELSE IF Len(top) > 1 THEN [name |-> SelectedNotes, children |-> top]
    ELSE IF Len(top) = 1 THEN top[1]
    ELSE [name |-> NoContent, children |-> <<>>]

ParseReturn ==
  /\ parsePc = "loop"
  /\ parseIndex = Len(Lines(parseText))
  /\ parseResult' = ParseReturned(parseState)
  /\ parsePc' = "returned"
  /\ UNCHANGED <<parseText, parseIndex, parseState>>

NextParse ==
  \/ /\ ParseEntry
     /\ UNCHANGED <<scrapeVars, listenerVars, backgroundVars>>
  \/ /\ ParseStep
     /\ UNCHANGED <<scrapeVars, listenerVars, backgroundVars>>
  \/ /\ ParseReturn
     /\ UNCHANGED <<scrapeVars, listenerVars, backgroundVars>>

SpecParse == InitParse /\ [][NextParse]_vars

\* ------------------------------------------- the content script's listener

\* The messages of the three calls of sendResponse, named by their line.
StructureLoaded == "message of line 386"
NoDataFound == "message of line 391"
ParseFailed == "message of line 396"

\* The messages the content script is sent.
Requests == {[action |-> "GET_DATA"], [action |-> "OPEN_STUDIO_TAB"]}

\* The listener is called with a message over a page.
InitListener ==
  /\ surface \in Pages
  /\ pc = "idle"
  /\ nScanned = 0
  /\ el = Null
  /\ candidatesMap = <<>>
  /\ idCounter = 0
  /\ candidates = <<>>
  /\ nPaths = 0
  /\ path = Null
  /\ connections = <<>>
  /\ processedPairs = {}
  /\ adjacency = EmptyMap
  /\ hasParent = {}
  /\ i = 0
  /\ rootNode = Null
  /\ finalTree = Null
  /\ outcome = "running"
  /\ stage = "pass"
  /\ calls = <<>>
  /\ pageResult = Null
  /\ invocation = 0
  /\ scanned = NothingScanned
  /\ earlier = Null
  /\ ParserIdle
  /\ request \in Requests
  /\ responses = <<>>
  /\ listenerPc = "called"
  /\ BackgroundIdle

\* if (request.action === "GET_DATA") scrapePageStructure is called in the
\* try block; any other message goes to return true.
ListenerCalled ==
  /\ listenerPc = "called"
  /\ IF request.action = "GET_DATA"
     THEN /\ listenerPc' = "try"
          /\ stage' = "selection"
     ELSE /\ listenerPc' = "returned"
          /\ stage' = stage
  /\ UNCHANGED <<request, responses, parserVars, backgroundVars, calls,
                 pageResult, invocation,
                 earlier, scanned, surface, pc, nScanned, el, candidatesMap,
                 idCounter, candidates, nPaths, path, connections,
                 processedPairs, adjacency, hasParent, i, rootNode, finalTree,
                 outcome>>

\* The listener with no catch block: what scrapePageStructure throws leaves
\* the listener.
ListenerRespondUncaught ==
  /\ listenerPc = "try"
  /\ stage \in {"returned", "threw"}
  /\ responses' =
       IF stage = "threw" THEN responses
       ELSE IF pageResult # Null
       THEN Append(responses, [success |-> TRUE, data |-> pageResult,
                               message |-> StructureLoaded])
       ELSE Append(responses, [success |-> FALSE, data |-> Null,
                               message |-> NoDataFound])
  /\ listenerPc' = IF stage = "threw" THEN "escaped" ELSE "returned"
  /\ UNCHANGED <<request, parserVars, scrapeVars, backgroundVars>>

\* scrapePageStructure has ended: its tree is sent, or the message for no
\* data, or, from the catch block, the message for an error; then return
\* true.  A response without data has Null for it.
ListenerRespond ==
  /\ listenerPc = "try"
  /\ stage \in {"returned", "threw"}
  /\ responses' =
       IF stage = "threw"
       THEN Append(responses, [success |-> FALSE, data |-> Null,
                               message |-> ParseFailed])
       ELSE IF pageResult # Null
       THEN Append(responses, [success |-> TRUE, data |-> pageResult,
                               message |-> StructureLoaded])
       ELSE Append(responses, [success |-> FALSE, data |-> Null,
                               message |-> NoDataFound])
  /\ listenerPc' = "returned"
  /\ UNCHANGED <<request, parserVars, scrapeVars, backgroundVars>>

NextListener ==
  \/ ListenerCalled
  \/ ListenerRespond
  \/ NextPage

SpecListener == InitListener /\ [][NextListener]_vars

\* ------------------------------------------------------ the background script

\* Number of messages sent to the background script.
MaxMessages == 2

StudioPage == "index.html"

\* A message: its action and its data.
Message(action, data) == [action |-> action, data |-> data]

\* Two requests to open the studio, with different trees, and a message of
\* another action.
BackgroundMessages ==
  {Message("OPEN_STUDIO_TAB", [name |-> <<"a">>, children |-> <<>>]),
   Message("OPEN_STUDIO_TAB", [name |-> <<"b">>, children |-> <<>>]),
   Message("GET_DATA", Null)}

\* An effect of the message m.
Effect(kind, m) == [kind |-> kind, message |-> m]

\* The messages are sent; the listener has been called with none.
InitBackground ==
  /\ PageIdle
  /\ ParserIdle
  /\ ListenerIdle
  /\ messages \in UNION {[1..n -> BackgroundMessages] : n \in 1..MaxMessages}
  /\ delivered = 0
  /\ returns = <<>>
  /\ writing = {}
  /\ callbacks = {}
  /\ storage = Null
  /\ tabs = <<>>
  /\ replies = <<>>
  /\ effects = <<>>

\* The listener that opens the tab at once, before the write has ended.
BackgroundReceiveEager ==
  /\ delivered < Len(messages)
  /\ delivered' = delivered + 1
  /\ IF messages[delivered + 1].action = "OPEN_STUDIO_TAB"
     THEN /\ writing' = writing \cup {delivered + 1}
          /\ tabs' = Append(tabs, StudioPage)
          /\ effects' = effects \o <<Effect("storage.set", delivered + 1),
                                     Effect("tabs.create", delivered + 1)>>
          /\ returns' = Append(returns, TRUE)
     ELSE /\ writing' = writing
          /\ tabs' = tabs
          /\ effects' = effects
          /\ returns' = Append(returns, Null)
  /\ UNCHANGED <<messages, callbacks, storage, replies>>

\* The listener is called with the next message: for OPEN_STUDIO_TAB the
\* write to local storage is issued and true is returned; for any other
\* action the listener returns nothing.
BackgroundReceive ==
  /\ delivered < Len(messages)
  /\ delivered' = delivered + 1
  /\ IF messages[delivered + 1].action = "OPEN_STUDIO_TAB"
     THEN /\ writing' = writing \cup {delivered + 1}
          /\ effects' = Append(effects, Effect("storage.set", delivered + 1))
          /\ returns' = Append(returns, TRUE)
     ELSE /\ writing' = writing
          /\ effects' = effects
          /\ returns' = Append(returns, Null)
  /\ UNCHANGED <<messages, callbacks, storage, tabs, replies>>

\* A write in flight ends: mindMapData is the data of its message, and its
\* callback is due.
StorageWritten ==
  \E m \in writing :
    /\ writing' = writing \ {m}
    /\ storage' = messages[m].data
    /\ callbacks' = callbacks \cup {m}
    /\ effects' = Append(effects, Effect("written", m))
    /\ UNCHANGED <<messages, delivered, returns, tabs, replies>>

\* The callback of a write: the studio tab is created, then the response
\* is sent.
StorageCallback ==
  \E m \in callbacks :
    /\ callbacks' = callbacks \ {m}
    /\ tabs' = Append(tabs, StudioPage)
    /\ replies' = Append(replies, [to |-> m, response |-> [success |-> TRUE]])
    /\ effects' = effects \o <<Effect("tabs.create", m), Effect("sendResponse", m)>>
    /\ UNCHANGED <<messages, delivered, returns, writing, storage>>

NextBackground ==
  \/ /\ BackgroundReceive
     /\ UNCHANGED <<scrapeVars, parserVars, listenerVars>>
  \/ /\ StorageWritten
     /\ UNCHANGED <<scrapeVars, parserVars, listenerVars>>
  \/ /\ StorageCallback
     /\ UNCHANGED <<scrapeVars, parserVars, listenerVars>>

SpecBackground == InitBackground /\ [][NextBackground]_vars

\* ------------------------------------------------------------- properties

ChildSet(adj, id) == {AdjGet(adj, id)[k] : k \in 1..Len(AdjGet(adj, id))}

\* The ids reachable from the ids of `frontier` by following children.
RECURSIVE Closure(_, _, _)
Closure(adj, frontier, seen) ==
  IF frontier = {} THEN seen
  ELSE LET next == UNION {ChildSet(adj, id) : id \in frontier} IN
         Closure(adj, next \ seen, seen \cup next)

Descendants(adj, id) == Closure(adj, {id}, {})

\* The candidates buildNode visits from the root.
Walked(adj, rootId) == {rootId} \cup Descendants(adj, rootId)

\* How often buildNode(c) emits the candidate `id` (on an adjacency it
\* terminates on).
RECURSIVE Visits(_, _, _, _)
Visits(adj, cands, c, id) ==
  LET ch == ChildrenNodes(adj, cands, c)
      below[k \in 0..Len(ch)] ==
        IF k = 0 THEN 0 ELSE below[k - 1] + Visits(adj, cands, ch[k], id)
  IN (IF c.id = id THEN 1 ELSE 0) + below[Len(ch)]

Ids(cands) == {cands[k].id : k \in 1..Len(cands)}

\* C1: scrapeVisualGraph returns null or a tree with no cycles: no candidate
\* that buildNode walks from the root is reachable from itself by following
\* children in the adjacency.
C1_TreeHasNoCycle ==
  (pc = "done" /\ outcome # "null") =>
    /\ outcome = "tree"
    /\ \A id \in Walked(adjacency, rootNode.id) : id \notin Descendants(adjacency, id)

\* C2: once a candidate survives collection, tree assembly terminates with a
\* tree: the pass ends with a tree or with null, never by an exception.
C2_AssemblyTerminates ==
  pc = "done" =>
    /\ outcome \in {"tree", "null"}
    /\ (Len(candidates) > 0 => outcome = "tree" /\ finalTree # Null)

\* C3: in the returned tree no candidate is in the child lists of two
\* different nodes, and every candidate occurs at most once.
C3_OneParentEach ==
  (pc = "done" /\ outcome = "tree") =>
    /\ \A p \in Walked(adjacency, rootNode.id) :
         \A q \in Walked(adjacency, rootNode.id) \ {p} :
           ChildSet(adjacency, p) \cap ChildSet(adjacency, q) = {}
    /\ \A id \in Ids(candidates) :
         Visits(adjacency, candidates, rootNode, id) <= 1

\* The unordered pair of candidate ids an edge joins.
PairOf(c) == {c.source, c.target}

Edge(a, b) == [source |-> a.id, target |-> b.id]

InConnections(e) == \E k \in 1..Len(connections) : connections[k] = e

\* The svg path loop has just examined `path`.
PathExamined == pc = "edges" /\ path # Null

\* C4: a stroke resolved to two candidates A, B with A's centre x strictly
\* smaller is recorded as the edge A -> B and never as B -> A, whichever end
\* of the path resolved to A.
C4_DirectionDeterminism ==
  (PathExamined /\ Connects(candidates, path)) =>
    LET s == StartNode(candidates, path)
        e == EndNode(candidates, path)
    IN /\ s.x2 < e.x2 => InConnections(Edge(s, e)) /\ ~InConnections(Edge(e, s))
       /\ e.x2 < s.x2 => InConnections(Edge(e, s)) /\ ~InConnections(Edge(s, e))

\* C4 witness: the first stroke starts in the right-hand candidate, ends in
\* the left-hand one, and the edge recorded runs from the end node.
C4_Witness ==
  /\ PathExamined
  /\ Connects(candidates, path)
  /\ EndNode(candidates, path).x2 < StartNode(candidates, path).x2
  /\ nPaths = 1
  /\ connections = <<Edge(EndNode(candidates, path), StartNode(candidates, path))>>

NoRepeat(seq) ==
  \A k \in 1..Len(seq) : \A l \in 1..Len(seq) : k # l => seq[k] # seq[l]

\* C5: every edge joins two different candidates and no unordered pair has
\* two edges, in the connections of the strokes and in the adjacency the
\* fallback linker extends; a stroke that connects a pair leaves exactly one
\* edge for it, and no child is listed twice under one parent.
C5_OneEdgePerPair ==
  /\ \A k \in 1..Len(connections) : connections[k].source # connections[k].target
  /\ \A k \in 1..Len(connections) : \A l \in 1..Len(connections) :
       k # l => PairOf(connections[k]) # PairOf(connections[l])
  /\ \A p \in DOMAIN adjacency :
       /\ NoRepeat(adjacency[p])
       /\ p \notin ChildSet(adjacency, p)
       /\ \A q \in ChildSet(adjacency, p) : p \notin ChildSet(adjacency, q)
  /\ (PathExamined /\ Connects(candidates, path)) =>
       Cardinality({k \in 1..Len(connections) :
                      PairOf(connections[k]) =
                        {StartNode(candidates, path).id,
                         EndNode(candidates, path).id}}) = 1

\* C5 witness: the stroke just examined connects the pair of the first of
\* two recorded edges, so an earlier stroke had produced that pair's edge.
C5_Witness ==
  /\ PathExamined
  /\ Connects(candidates, path)
  /\ Len(connections) = 2
  /\ PairOf(connections[1]) =
       {StartNode(candidates, path).id, EndNode(candidates, path).id}

InNoBox(cands, pt) == \A k \in 1..Len(cands) : ~Contains(cands[k], pt.x, pt.y)

\* The squared distance from pt to the nearest candidate box.
MinBoxDist2(cands, pt) ==
  LET ds == {BoxDist2(cands[k], pt.x, pt.y) : k \in 1..Len(cands)} IN
    CHOOSE d \in ds : \A o \in ds : d <= o

Hundred2 == Px(100) * Px(100)

EndPoints(p) == {p.pStart, p.pEnd}

Resolve(cands, pt) == findClosestNode(cands, pt.x, pt.y)

\* C6 as stated: an endpoint in no box, exactly 100 px from the nearest box,
\* resolves to no candidate and the stroke yields no edge.
C6_ExactlyHundredIsNoise ==
  (PathExamined /\ Sampled(path)) =>
    \A pt \in EndPoints(path) :
      (InNoBox(candidates, pt) /\ MinBoxDist2(candidates, pt) = Hundred2) =>
        /\ Resolve(candidates, pt) = Null
        /\ nPaths = 1 => connections = <<>>

\* C6 amended: an endpoint in no box resolves to a nearest candidate when its
\* distance to the nearest box is 100 px or less, exactly 100 px included; it
\* resolves to no candidate, and the stroke yields no edge, only beyond 100 px.
C6_HundredIsWithinThreshold ==
  (PathExamined /\ Sampled(path)) =>
    \A pt \in EndPoints(path) :
      InNoBox(candidates, pt) =>
        IF MinBoxDist2(candidates, pt) <= Hundred2
        THEN /\ Resolve(candidates, pt) # Null
             /\ BoxDist2(Resolve(candidates, pt), pt.x, pt.y)
                  = MinBoxDist2(candidates, pt)
        ELSE /\ Resolve(candidates, pt) = Null
             /\ nPaths = 1 => connections = <<>>

\* C6 witness: the first stroke starts exactly 100 px from the nearest box
\* and an edge is recorded for it.
C6_Witness ==
  /\ PathExamined
  /\ Sampled(path)
  /\ InNoBox(candidates, path.pStart)
  /\ MinBoxDist2(candidates, path.pStart) = Hundred2
  /\ nPaths = 1
  /\ Len(connections) = 1

AllDigits(t) == t # <<>> /\ \A k \in 1..Len(t) : t[k] \in Digit

\* Noise as the property words it: one arrow glyph, one bullet glyph, or a
\* bare number.
NoiseAsStated(t) ==
  \/ Len(t) = 1 /\ t[1] \in {RightArrow, "<", ">", BlackCircle, Bullet, "-", "+"}
  \/ AllDigits(t)

\* Noise as the pattern matches it: one of < > + - U+25CF U+2022, or digits.
NoiseAsMatched(t) ==
  \/ Len(t) = 1 /\ t[1] \in {"<", ">", "+", "-", BlackCircle, Bullet}
  \/ AllDigits(t)

RECURSIVE TreeNames(_)
TreeNames(tree) ==
  {tree.name} \cup
    UNION {TreeNames(tree.children[k]) : k \in 1..Len(tree.children)}

CandidateTexts == {candidatesMap[k].value.text : k \in 1..Len(candidatesMap)}

Triple(left, top, text) == <<Round(left), Round(top), text>>

TripleOf(c) == Triple(c.left, c.top, c.text)

\* C8: each processElement step leaves the candidates collected so far as
\* they are; a fragment whose triple some candidate has adds nothing, a
\* fragment with a new triple adds exactly itself, and no two candidates
\* share a triple.
C8_Deduplication ==
  [][(pc = "collect" /\ pc' = "collect" /\ el' # Null) =>
       LET e == el'
           same == {k \in 1..Len(candidatesMap) :
                      TripleOf(candidatesMap[k].value)
                        = Triple(e.rect.left, e.rect.top, TextOf(e))}
           n == Len(candidatesMap)
       IN /\ Len(candidatesMap') >= n
          /\ SubSeq(candidatesMap', 1, n) = candidatesMap
          /\ (Accepted(e) /\ same # {}) => candidatesMap' = candidatesMap
          /\ (Accepted(e) /\ same = {}) =>
               /\ Len(candidatesMap') = n + 1
               /\ candidatesMap'[n + 1].value.left = e.rect.left
               /\ candidatesMap'[n + 1].value.top = e.rect.top
               /\ candidatesMap'[n + 1].value.text = TextOf(e)
          /\ \A k \in 1..Len(candidatesMap') : \A l \in 1..Len(candidatesMap') :
               k # l => TripleOf(candidatesMap'[k].value)
                          # TripleOf(candidatesMap'[l].value)
    ]_vars

\* C8 witness: the second fragment scanned sits half a pixel from the first,
\* rounds to the same position with the same text, and the one candidate
\* kept is the first fragment.
C8_Witness ==
  /\ pc = "collect"
  /\ nScanned = 2
  /\ el # Null
  /\ Accepted(el)
  /\ Len(candidatesMap) = 1
  /\ TripleOf(candidatesMap[1].value) = Triple(el.rect.left, el.rect.top, TextOf(el))
  /\ candidatesMap[1].value.left # el.rect.left

\* C9: with no candidate collected the pass goes nowhere but to its end,
\* where it returns null, not a tree and not an error, with no stroke
\* examined.
C9_EmptyInputReturnsNull ==
  /\ Len(candidatesMap) = 0 => pc \in {"collect", "done"}
  /\ (pc = "done" /\ Len(candidatesMap) = 0) =>
       /\ outcome = "null"
       /\ finalTree = Null
       /\ nPaths = 0
       /\ connections = <<>>

\* C9 witness: fragments were scanned, none survived, and null is returned.
C9_Witness ==
  /\ pc = "done"
  /\ nScanned > 0
  /\ Len(candidatesMap) = 0
  /\ outcome = "null"

CentreX(cands) == {cands[k].x2 : k \in 1..Len(cands)}
CentreY(cands) == {cands[k].y2 : k \in 1..Len(cands)}

\* The candidate whose centre x is x pixels.
CandidateAt(cands, x) == cands[CHOOSE k \in 1..Len(cands) : cands[k].x2 = 2 * Px(x)]

\* Three candidates centred at x = 0, 100 and 200 on one y, and one stroke
\* edge, between the candidates at 0 and at 100.
ScenarioA ==
  /\ Len(candidates) = 3
  /\ CentreX(candidates) = {0, 2 * Px(100), 2 * Px(200)}
  /\ Cardinality(CentreY(candidates)) = 1
  /\ Len(connections) = 1
  /\ PairOf(connections[1]) =
       {CandidateAt(candidates, 0).id, CandidateAt(candidates, 100).id}

Leaf(c) == [name |-> c.text, children |-> <<>>]

\* C10: in scenario A the fallback attaches the candidate at 200 to the one
\* at 100, and the tree is candidate-at-0 > candidate-at-100 >
\* candidate-at-200, each the single child of the one before.
C10_ScenarioA ==
  (pc = "done" /\ ScenarioA) =>
    /\ AdjGet(adjacency, CandidateAt(candidates, 100).id)
         = <<CandidateAt(candidates, 200).id>>
    /\ outcome = "tree"
    /\ finalTree =
         [name |-> CandidateAt(candidates, 0).text,
          children |->
            <<[name |-> CandidateAt(candidates, 100).text,
               children |-> <<Leaf(CandidateAt(candidates, 200))>>]>>]

\* C10 witness: a pass over scenario A has ended.
C10_Witness == pc = "done" /\ ScenarioA

\* The stroke is skipped for a fault: a geometry call on it raises, or one of
\* its sampled endpoints resolves to no candidate.
Faulty(cands, p) ==
  \/ p.throws
  \/ Sampled(p) /\ (StartNode(cands, p) = Null \/ EndNode(cands, p) = Null)

IsPrefix(s, t) == Len(s) <= Len(t) /\ SubSeq(t, 1, Len(s)) = s

\* C13: a stroke whose measuring or sampling throws, or with an endpoint that
\* resolves to no candidate, is skipped alone: it adds no edge and no pair,
\* the edges of earlier strokes are kept in their order, the pass is left
\* running, and the loop can go on to a further stroke and on to the
\* adjacency, fallback and assembly stages.
C13_StrokeFaultIsolation ==
  /\ []((PathExamined /\ Faulty(candidates, path)) =>
          /\ outcome = "running"
          /\ nPaths < MaxPaths => ENABLED ProcessPath
          /\ ENABLED EdgesDone)
  /\ [][(pc = "edges" /\ pc' = "edges") =>
          /\ IsPrefix(connections, connections')
          /\ Faulty(candidates, path') =>
               connections' = connections /\ processedPairs' = processedPairs]_vars

\* C13 witness: the second stroke raised, and the edge of the first stroke is
\* still the one recorded.
C13_Witness ==
  /\ PathExamined
  /\ path.throws
  /\ nPaths = 2
  /\ Len(connections) = 1

\* The positions, in discovery order, of the candidates whose box holds pt,
\* border included.
BoxesHolding(cands, pt) ==
  {k \in 1..Len(cands) :
     /\ cands[k].left <= pt.x /\ pt.x <= cands[k].left + cands[k].width
     /\ cands[k].top <= pt.y /\ pt.y <= cands[k].top + cands[k].height}

\* The positions of the candidates whose box is at the least distance from pt.
NearestBoxes(cands, pt) ==
  {k \in 1..Len(cands) :
     \A j \in 1..Len(cands) :
       BoxDist2(cands[k], pt.x, pt.y) <= BoxDist2(cands[j], pt.x, pt.y)}

Least(S) == CHOOSE k \in S : \A h \in S : k <= h

\* C14: an endpoint inside or on the border of some candidate's box resolves
\* to the first such candidate in discovery order; any other endpoint resolves
\* to the candidate at the least distance from its box, the first in
\* discovery order among equally near ones, and to no candidate when that
\* distance exceeds 100 px, the stroke then yielding no edge.
C14_ClosestNodeResolution ==
  (PathExamined /\ Sampled(path)) =>
    \A pt \in EndPoints(path) :
      IF BoxesHolding(candidates, pt) # {}
      THEN Resolve(candidates, pt) = candidates[Least(BoxesHolding(candidates, pt))]
      ELSE IF MinBoxDist2(candidates, pt) > Hundred2
           THEN /\ Resolve(candidates, pt) = Null
                /\ nPaths = 1 => connections = <<>>
           ELSE Resolve(candidates, pt) = candidates[Least(NearestBoxes(candidates, pt))]

\* C14 witness: the first stroke starts inside two overlapping boxes and ends
\* in no box, equally near to two of them, and it has produced an edge.
C14_Witness ==
  /\ PathExamined
  /\ Sampled(path)
  /\ nPaths = 1
  /\ Cardinality(BoxesHolding(candidates, path.pStart)) = 2
  /\ BoxesHolding(candidates, path.pEnd) = {}
  /\ Cardinality(NearestBoxes(candidates, path.pEnd)) = 2
  /\ Len(connections) = 1

\* A step of the fallback loop: it visits candidates[i + 1].
FallbackVisit == pc = "fallback" /\ pc' = "fallback"

\* The number of edges of an adjacency.
RECURSIVE EdgeCount(_)
EdgeCount(adj) ==
  IF DOMAIN adj = {} THEN 0
  ELSE LET k == CHOOSE k \in DOMAIN adj : TRUE IN
         Len(adj[k]) + EdgeCount([j \in DOMAIN adj \ {k} |-> adj[j]])

\* The positions of the candidates with a strictly smaller centre x than c.
LeftOf(cands, c) == {k \in 1..Len(cands) : cands[k].x2 < c.x2}

\* The position in LeftOf(cands, c) of least metric to c, the earliest of
\* the sorted order among equal ones.
LeastMetric(cands, c) ==
  CHOOSE k \in LeftOf(cands, c) :
    \A j \in LeftOf(cands, c) \ {k} :
      /\ ~MetricLess(Metric(c, cands[j]), Metric(c, cands[k]))
      /\ j < k => MetricLess(Metric(c, cands[k]), Metric(c, cands[j]))

\* C15 as stated: for every candidate the fallback loop visits (so not the
\* first of the sorted order) outside hasParent, the loop adds exactly one
\* edge.
C15_EveryVisitedOrphanLinked ==
  [][(FallbackVisit /\ candidates[i + 1].id \notin hasParent) =>
       EdgeCount(adjacency') = EdgeCount(adjacency) + 1]_vars

\* C15 amended: a visited candidate outside hasParent with some candidate of
\* strictly smaller centre x gets exactly one edge, from the candidate of
\* least distance + 0.5 * |dy| among those of strictly smaller centre x (the
\* earliest in sorted order among equal ones); with no candidate of strictly
\* smaller centre x, or inside hasParent, it gets none.
C15_FallbackParentChoice ==
  [][FallbackVisit =>
       LET cur == candidates[i + 1] IN
         IF cur.id \notin hasParent /\ LeftOf(candidates, cur) # {}
         THEN adjacency' =
                AdjPush(adjacency, candidates[LeastMetric(candidates, cur)].id, cur.id)
         ELSE adjacency' = adjacency]_vars

\* C15 witness: the third candidate of the sorted order had two candidates
\* of equal metric to its left, no stroke had linked anything, and it is now
\* the child of the earlier of the two.
C15_Witness ==
  /\ pc = "fallback"
  /\ i = 3
  /\ connections = <<>>
  /\ LeftOf(candidates, candidates[3]) = {1, 2}
  /\ ~MetricLess(Metric(candidates[3], candidates[1]), Metric(candidates[3], candidates[2]))
  /\ ~MetricLess(Metric(candidates[3], candidates[2]), Metric(candidates[3], candidates[1]))
  /\ AdjGet(adjacency, candidates[1].id) = <<candidates[3].id>>

\* The ids the stroke edges target.
StrokeTargets == {connections[k].target : k \in 1..Len(connections)}

\* The nodes that list id among their children.
ParentsOf(adj, id) == {p \in DOMAIN adj : id \in ChildSet(adj, p)}

\* The children adj2 lists under p beyond those adj1 lists.
Appended(adj1, adj2, p) ==
  {adj2[p][k] : k \in (Len(AdjGet(adj1, p)) + 1)..Len(adj2[p])}

\* C16: the fallback linker only adds.  Each of its steps keeps the stroke
\* edges and every child list as a prefix of the new one, adds at most one
\* edge, and the target of an added edge was outside hasParent and is not
\* the first candidate of the sorted order; a candidate it has linked has
\* exactly one parent, then and at the end of the pass.
C16_FallbackOnlyAdds ==
  /\ [](pc \in {"fallback", "done"} =>
          \A id \in hasParent \ StrokeTargets :
            Cardinality(ParentsOf(adjacency, id)) = 1)
  /\ [][pc = "fallback" =>
          /\ connections' = connections
          /\ hasParent \subseteq hasParent'
          /\ EdgeCount(adjacency') <= EdgeCount(adjacency) + 1
          /\ \A p \in DOMAIN adjacency :
               p \in DOMAIN adjacency' /\ IsPrefix(adjacency[p], adjacency'[p])
          /\ \A p \in DOMAIN adjacency' :
               \A id \in Appended(adjacency, adjacency', p) :
                 /\ id \notin hasParent
                 /\ id # candidates[1].id
                 /\ ParentsOf(adjacency', id) = {p}]_vars

\* C16 witness: a pass has ended with a tree in which one candidate was
\* linked by a stroke and another one by the fallback loop.
C16_Witness ==
  /\ pc = "done"
  /\ outcome = "tree"
  /\ StrokeTargets # {}
  /\ hasParent \ StrokeTargets # {}

\* The positions of the candidates outside hp.
Parentless(cands, hp) == {k \in 1..Len(cands) : cands[k].id \notin hp}

\* C17: at the end of a pass with candidates, when some candidate is outside
\* hasParent the root is one of these with the least centre x among them;
\* when every candidate is in hasParent the root is the first of the sorted
\* candidates, of least centre x overall, whatever its parent.  A tree that
\* is returned is named after the root.
C17_RootSelection ==
  (pc = "done" /\ outcome # "null") =>
    /\ IF Parentless(candidates, hasParent) # {}
       THEN /\ \E k \in Parentless(candidates, hasParent) : rootNode = candidates[k]
            /\ \A k \in Parentless(candidates, hasParent) :
                 rootNode.x2 <= candidates[k].x2
       ELSE /\ rootNode = candidates[1]
            /\ rootNode.id \in hasParent
            /\ \A k \in 1..Len(candidates) : rootNode.x2 <= candidates[k].x2
    /\ outcome = "tree" => finalTree.name = rootNode.text

\* C17 witness: a tree was returned whose root is not the first of the
\* sorted candidates, which has a parent.
C17_Witness ==
  /\ pc = "done"
  /\ outcome = "tree"
  /\ candidates[1].id \in hasParent
  /\ rootNode # candidates[1]

\* Every candidate has a parent at the end of a pass: the root is the first of
\* the sorted candidates.
C17_AllLinkedReached ==
  pc = "done" /\ outcome # "null" /\ Parentless(candidates, hasParent) = {}

\* The candidate of the given id.
CandidateOf(cands, id) == cands[CHOOSE k \in 1..Len(cands) : cands[k].id = id]

\* The orders in which n children can be listed.
Orders(n) ==
  {f \in [1..n -> 1..n] : \A k \in 1..n : \A l \in 1..n : k # l => f[k] # f[l]}

\* The tree is the one of candidate c: named by its text, its children the
\* trees of the candidates the adjacency lists for c, each once, in an order
\* of ascending centre y.
RECURSIVE TreeOf(_, _, _, _)
TreeOf(tree, adj, cands, c) ==
  LET ids == AdjGet(adj, c.id) IN
    /\ tree.name = c.text
    /\ Len(tree.children) = Len(ids)
    /\ \E f \in Orders(Len(ids)) :
         /\ \A k \in 1..(Len(ids) - 1) :
              CandidateOf(cands, ids[f[k]]).y2 <= CandidateOf(cands, ids[f[k + 1]]).y2
         /\ \A k \in 1..Len(ids) :
              TreeOf(tree.children[k], adj, cands, CandidateOf(cands, ids[f[k]]))

\* C18: in a returned tree every node is named by its candidate's text and
\* its children are exactly the candidates the adjacency lists for it, in
\* ascending order of centre y, whatever the order they were attached in.
C18_ChildOrdering ==
  (pc = "done" /\ outcome = "tree") =>
    TreeOf(finalTree, adjacency, candidates, rootNode)

\* C18 witness: a tree was returned whose root lists a lower child before a
\* higher one in the adjacency.
C18_Witness ==
  /\ pc = "done"
  /\ outcome = "tree"
  /\ Len(AdjGet(adjacency, rootNode.id)) >= 2
  /\ CandidateOf(candidates, AdjGet(adjacency, rootNode.id)[1]).y2
       > CandidateOf(candidates, AdjGet(adjacency, rootNode.id)[2]).y2

\* C19: at the end of a pass with candidates, a candidate is outside
\* hasParent exactly when no stroke edge targets it and it is the first of
\* the sorted candidates or no candidate has a strictly smaller centre x;
\* when there are such candidates the root is one of them, and no other one
\* of them is among the candidates the returned tree is built from.
C19_Orphans ==
  (pc = "done" /\ outcome # "null") =>
    /\ \A k \in 1..Len(candidates) :
         candidates[k].id \notin hasParent <=>
           /\ candidates[k].id \notin StrokeTargets
           /\ k = 1 \/ LeftOf(candidates, candidates[k]) = {}
    /\ Parentless(candidates, hasParent) # {} => rootNode.id \notin hasParent
    /\ outcome = "tree" =>
         \A k \in Parentless(candidates, hasParent) :
           candidates[k].id # rootNode.id =>
             candidates[k].id \notin Walked(adjacency, rootNode.id)

\* C19 witness: a tree was returned from three candidates of which two have
\* no parent and the third was linked.
C19_Witness ==
  /\ pc = "done"
  /\ outcome = "tree"
  /\ Len(candidates) = 3
  /\ Cardinality(Parentless(candidates, hasParent)) = 2
  /\ Walked(adjacency, rootNode.id) # {rootNode.id}

\* processElement has just been applied to the element el.
ElementScanned == pc = "collect" /\ el # Null

\* The element just scanned has a candidate: an entry under its key that
\* carries its trimmed text.
HasCandidate ==
  \E k \in 1..Len(candidatesMap) :
    /\ candidatesMap[k].key = DedupeKey(el.rect, TextOf(el))
    /\ candidatesMap[k].value.text = TextOf(el)

\* C20 as stated: a rendered element whose trimmed text is not noise is
\* rejected exactly when that text is empty or longer than 300 characters,
\* so one of exactly 300 characters has a candidate.
C20_RejectedAboveThreeHundred ==
  (ElementScanned /\ Rendered(el) /\ ~isGarbage(TextOf(el))) =>
    (HasCandidate <=> (1 <= Len(TextOf(el)) /\ Len(TextOf(el)) <= MaxTextLength))

\* C20 amended: a rendered element whose trimmed text is not noise is
\* rejected exactly when that text is empty or has 300 characters or more:
\* one of 299 characters has a candidate, one of exactly 300 has none.
C20_RejectedFromThreeHundred ==
  (ElementScanned /\ Rendered(el) /\ ~isGarbage(TextOf(el))) =>
    (HasCandidate <=> (1 <= Len(TextOf(el)) /\ Len(TextOf(el)) < MaxTextLength))

\* C20 witness: the element just scanned carries white space around 299
\* characters and has a candidate with the 299 characters.
C20_Witness ==
  /\ ElementScanned
  /\ Rendered(el)
  /\ Len(el.textContent) > MaxTextLength
  /\ Len(TextOf(el)) = MaxTextLength - 1
  /\ HasCandidate

\* An element of exactly 300 characters was scanned and has no candidate.
C20_ThreeHundredRejected ==
  /\ ElementScanned
  /\ Rendered(el)
  /\ Len(TextOf(el)) = MaxTextLength
  /\ ~HasCandidate

\* The producer has been called by scrapePageStructure.
Called(producer) == \E k \in 1..Len(calls) : calls[k] = producer

\* The producer a was called, and before any call of the producer b.
CalledBefore(a, b) ==
  \E k \in 1..Len(calls) :
    calls[k] = a /\ \A j \in 1..k : calls[j] # b

\* The tree the text parser has for the page's selection, Null for none.
SelectionTree ==
  IF Selected(surface.selection) THEN parseTextStructure(surface.selection) ELSE Null

\* The tree the heading parser has for the page's document, Null for none.
HeadingTree == scrapeHeaders(surface.document)

\* C11 as stated: the text parser's tree and then the heading parser's tree
\* preempt the visual graph: scrapeVisualGraph is called only when neither
\* has a tree, and a returned result is the first available of the text
\* parser's, the heading parser's and the visual graph's.
C11_ParsersPreemptVisualGraph ==
  /\ Called("scrapeVisualGraph") => SelectionTree = Null /\ HeadingTree = Null
  /\ stage = "returned" =>
       pageResult = IF SelectionTree # Null THEN SelectionTree
                    ELSE IF HeadingTree # Null THEN HeadingTree
                    ELSE finalTree

\* C11 amended: the text parser's tree preempts the visual graph, and the
\* visual graph's tree preempts the heading parser.  scrapeVisualGraph is
\* called only when the text parser has no tree, scrapeHeaders only after
\* scrapeVisualGraph was called and returned null, and a returned result is
\* the first available of the text parser's, the visual graph's and the
\* heading parser's.
C11_ProducerPriority ==
  /\ Called("scrapeVisualGraph") => SelectionTree = Null
  /\ Called("scrapeHeaders") =>
       /\ SelectionTree = Null
       /\ CalledBefore("scrapeVisualGraph", "scrapeHeaders")
       /\ pc = "done" /\ outcome = "null"
  /\ Called("parseTextStructure") =>
       CalledBefore("parseTextStructure", "scrapeVisualGraph")
  /\ stage = "returned" =>
       pageResult = IF SelectionTree # Null THEN SelectionTree
                    ELSE IF outcome = "tree" THEN finalTree
                    ELSE HeadingTree

\* C11 witness: the page has headings the heading parser makes a tree of, and
\* scrapePageStructure has returned the tree of the visual graph without
\* calling scrapeHeaders.
C11_Witness ==
  /\ stage = "returned"
  /\ HeadingTree # Null
  /\ outcome = "tree"
  /\ pageResult = finalTree
  /\ pageResult # HeadingTree
  /\ calls = <<"scrapeVisualGraph">>

\* The heading parser's tree is returned, after the visual graph had none.
C11_HeadingsReturned ==
  /\ stage = "returned"
  /\ pageResult # Null
  /\ pageResult = HeadingTree
  /\ calls = <<"scrapeVisualGraph", "scrapeHeaders">>

\* C12: of two successive passes over an unchanged surface, the second starts
\* with candidatesMap, idCounter, connections, processedPairs, adjacency and
\* hasParent empty, and ends as the first did: the same outcome, an equal
\* tree, and the same candidates under the same ids.
C12_Reentrancy ==
  /\ (invocation = 2 /\ pc = "collect" /\ nScanned = 0) =>
       /\ candidatesMap = <<>> /\ idCounter = 0
       /\ connections = <<>> /\ processedPairs = {}
       /\ adjacency = EmptyMap /\ hasParent = {}
  /\ (invocation = 2 /\ pc = "done") =>
       /\ outcome = earlier.outcome
       /\ finalTree = earlier.finalTree
       /\ candidates = earlier.candidates

\* C12 witness: the second pass has ended with a tree of two candidates, the
\* left one discovered second (id 1) and made the parent by a stroke, as in
\* the first pass.
C12_Witness ==
  /\ invocation = 2
  /\ pc = "done"
  /\ outcome = "tree"
  /\ Len(candidates) = 2
  /\ candidates[1].id = 1
  /\ Len(connections) = 1
  /\ finalTree = earlier.finalTree

\* C21: candidate ids are dense and in discovery order: the k-th entry of
\* candidatesMap has id k - 1, the next id is the number of entries, the
\* candidates of the later stages carry exactly the ids 0..n-1, and a scanned
\* element that adds no entry takes no id.
C21_DenseIds ==
  /\ [](/\ \A k \in 1..Len(candidatesMap) : candidatesMap[k].value.id = k - 1
        /\ pc = "collect" => idCounter = Len(candidatesMap)
        /\ pc \notin {"idle", "collect"} =>
             Ids(candidates) = 0..(Len(candidates) - 1))
  /\ [][(pc = "collect" /\ pc' = "collect" /\ candidatesMap' = candidatesMap) =>
          idCounter' = idCounter]_vars

\* C21 witness: of three elements scanned one added no entry, and the last
\* one scanned is the second candidate, with id 1.
C21_Witness ==
  /\ pc = "collect"
  /\ nScanned = 3
  /\ Len(candidatesMap) = 2
  /\ candidatesMap[2].key = DedupeKey(el.rect, TextOf(el))
  /\ candidatesMap[2].value.id = 1

\* The ids that occur in some child list of the adjacency.
ListedChildren(adj) == UNION {ChildSet(adj, p) : p \in DOMAIN adj}

\* C22: in every state of the pass hasParent is the set of ids that occur in
\* some child list of adjacency, and every key of adjacency has a non-empty
\* child list.
C22_HasParentIsChildren ==
  /\ hasParent = ListedChildren(adjacency)
  /\ \A p \in DOMAIN adjacency : adjacency[p] # <<>>

\* C22 witness: the fallback loop is under way with one candidate linked by
\* a stroke and another one by the loop, under two different parents.
C22_Witness ==
  /\ pc = "fallback"
  /\ StrokeTargets # {}
  /\ hasParent \ StrokeTargets # {}
  /\ Cardinality(DOMAIN adjacency) = 2

\* The stroke's box is below 10 px in width and in height.
SmallBox(p) == p.width < Px(10) /\ p.height < Px(10)

\* The stroke can be measured and placed: getTotalLength exists, no geometry
\* call raises, and the screen matrix is there.
Measurable(p) == p.hasTotalLength /\ ~p.throws /\ p.ctm

\* C23: a stroke whose box is below 10 px in both dimensions, or whose length
\* is 5 px or less, adds no edge.  A measurable stroke longer than 5 px whose
\* box reaches 10 px in at least one dimension is examined: when its ends
\* resolve to two different candidates, their pair has an edge.
C23_StrokeFilter ==
  /\ [][(pc = "edges" /\ pc' = "edges"
           /\ (SmallBox(path') \/ path'.len <= Px(5))) =>
          connections' = connections /\ processedPairs' = processedPairs]_vars
  /\ []((PathExamined /\ ~SmallBox(path) /\ path.len > Px(5) /\ Measurable(path)
            /\ Resolve(candidates, path.pStart) # Null
            /\ Resolve(candidates, path.pEnd) # Null
            /\ Resolve(candidates, path.pStart).id # Resolve(candidates, path.pEnd).id) =>
          \E k \in 1..Len(connections) :
            PairOf(connections[k]) =
              {Resolve(candidates, path.pStart).id, Resolve(candidates, path.pEnd).id})

\* C23 witness: the first stroke is flat (no height, 100 px wide), longer
\* than 5 px, and has produced the edge.
C23_Witness ==
  /\ PathExamined
  /\ nPaths = 1
  /\ path.height = 0
  /\ path.width = Px(100)
  /\ path.len > Px(5)
  /\ Len(connections) = 1

\* A stroke 100 px wide of length exactly 5 px was examined first and left no
\* edge.
C23_FivePixelsSkipped ==
  /\ PathExamined
  /\ nPaths = 1
  /\ ~SmallBox(path)
  /\ path.len = Px(5)
  /\ Measurable(path)
  /\ Len(candidates) = 2
  /\ connections = <<>>

\* A stroke with a box below 10 px in both dimensions, longer than 5 px, whose
\* ends resolve to two different candidates, was examined first and left no
\* edge.
C23_IconSkipped ==
  /\ PathExamined
  /\ nPaths = 1
  /\ SmallBox(path)
  /\ path.len > Px(5)
  /\ Resolve(candidates, path.pStart) # Null
  /\ Resolve(candidates, path.pEnd) # Null
  /\ Resolve(candidates, path.pStart).id # Resolve(candidates, path.pEnd).id
  /\ connections = <<>>

\* The edges of an adjacency, as [source, target] records.
EdgesOf(adj) ==
  UNION {{[source |-> p, target |-> c] : c \in ChildSet(adj, p)} : p \in DOMAIN adj}

\* The edges the strokes produced.
StrokeEdges == {connections[k] : k \in 1..Len(connections)}

\* The edge lies on a cycle: its source is reached from its target.
OnCycle(adj, e) ==
  e.source = e.target \/ e.source \in Descendants(adj, e.target)

\* C24: once the adjacency is being built, every edge runs from a centre x to
\* an equal or larger one, every edge that is not a stroke's runs to a
\* strictly larger one, and every edge on a cycle is a stroke's and joins two
\* candidates of one centre x.
C24_GeometricOrdering ==
  pc \in {"graph", "fallback", "done"} =>
    \A e \in EdgesOf(adjacency) :
      LET s == CandidateOf(candidates, e.source)
          t == CandidateOf(candidates, e.target)
      IN /\ s.x2 <= t.x2
         /\ e \notin StrokeEdges => s.x2 < t.x2
         /\ OnCycle(adjacency, e) => e \in StrokeEdges /\ s.x2 = t.x2

\* C24 witness: the pass has ended on an adjacency with a cycle.
C24_Witness ==
  /\ pc = "done"
  /\ \E e \in EdgesOf(adjacency) : OnCycle(adjacency, e)

\* The pass has ended on an adjacency with a stroke edge between two centre
\* x and an edge of the fallback loop.
C24_BothKindsReached ==
  /\ pc = "done"
  /\ \E e \in EdgesOf(adjacency) : e \notin StrokeEdges
  /\ \E e \in StrokeEdges :
       CandidateOf(candidates, e.source).x2 < CandidateOf(candidates, e.target).x2

\* No two candidates have the same centre x.
DistinctX(cands) ==
  \A k \in 1..Len(cands) : \A l \in 1..Len(cands) :
    k # l => cands[k].x2 # cands[l].x2

\* The number of nodes of the tree that carry the name.
RECURSIVE NameCount(_, _)
NameCount(tree, name) ==
  LET below[k \in 0..Len(tree.children)] ==
        IF k = 0 THEN 0 ELSE below[k - 1] + NameCount(tree.children[k], name)
  IN (IF tree.name = name THEN 1 ELSE 0) + below[Len(tree.children)]

\* C25: when the centre x of the candidates are pairwise distinct, whatever
\* the strokes, the pass returns a tree whose root is the candidate of least
\* centre x, buildNode reaches every candidate from it, and the tree has at
\* least as many nodes of each text as there are candidates of that text.
C25_NoCandidateLost ==
  (pc = "done" /\ outcome # "null" /\ DistinctX(candidates)) =>
    /\ outcome = "tree"
    /\ \A k \in 1..Len(candidates) : rootNode.x2 <= candidates[k].x2
    /\ finalTree.name = rootNode.text
    /\ Walked(adjacency, rootNode.id) = Ids(candidates)
    /\ \A k \in 1..Len(candidates) :
         NameCount(finalTree, candidates[k].text) >=
           Cardinality({l \in 1..Len(candidates) :
                          candidates[l].text = candidates[k].text})

\* C25 witness: a tree was returned from three candidates of distinct centre
\* x and two stroke edges, the root having one child.
C25_Witness ==
  /\ pc = "done"
  /\ outcome = "tree"
  /\ Len(candidates) = 3
  /\ DistinctX(candidates)
  /\ Len(connections) = 2
  /\ Len(finalTree.children) = 1
  /\ Len(finalTree.children[1].children) = 1

\* The positions of the candidates whose centre x is strictly smaller than
\* every other candidate's: one position, or none.
StrictlyLeftmost(cands) ==
  {k \in 1..Len(cands) :
     \A l \in 1..Len(cands) \ {k} : cands[k].x2 < cands[l].x2}

\* C26: a candidate whose centre x is strictly smaller than every other
\* candidate's is never the target of a stroke edge or of an edge of the
\* fallback loop, it is the root the pass selects, and a returned tree is
\* named after it.
C26_StrictlyLeftmostIsRoot ==
  pc \in {"edges", "graph", "fallback", "done"} =>
    \A k \in StrictlyLeftmost(candidates) :
      /\ candidates[k].id \notin StrokeTargets
      /\ candidates[k].id \notin ListedChildren(adjacency)
      /\ candidates[k].id \notin hasParent
      /\ pc = "done" =>
           /\ rootNode = candidates[k]
           /\ outcome = "tree" => finalTree.name = candidates[k].text

\* C26 witness: a tree was returned from three candidates; the strictly
\* leftmost one was discovered last and a stroke joins it, and it is the
\* root.
C26_Witness ==
  /\ pc = "done"
  /\ outcome = "tree"
  /\ Len(candidates) = 3
  /\ StrictlyLeftmost(candidates) = {1}
  /\ candidates[1].id = 2
  /\ \E e \in StrokeEdges : e.source = 2
  /\ rootNode = candidates[1]

\* The text has a character that is not white space.
HasInk(text) == \E k \in 1..Len(text) : text[k] \notin WhiteSpace

\* C27: when the selection has a character that is not white space,
\* parseTextStructure has a tree for it (the "No Content" node when every
\* line cleans to empty), neither scrapeVisualGraph nor scrapeHeaders is ever
\* called, and what scrapePageStructure returns is that tree;
\* scrapePageStructure returns null only when there is no such selection and
\* both scrapeVisualGraph and scrapeHeaders returned null.
C27_SelectionWins ==
  /\ HasInk(surface.selection) =>
       /\ parseTextStructure(surface.selection) # Null
       /\ \A l \in 1..Len(Lines(surface.selection)) :
            CleanName(Lines(surface.selection)[l]) = <<>>
          => parseTextStructure(surface.selection) =
               [name |-> NoContent, children |-> <<>>]
       /\ ~Called("scrapeVisualGraph")
       /\ ~Called("scrapeHeaders")
       /\ stage \in {"selection", "returned"}
       /\ stage = "returned" =>
            /\ calls = <<"parseTextStructure">>
            /\ pageResult = parseTextStructure(surface.selection)
  /\ (stage = "returned" /\ pageResult = Null) =>
       /\ ~HasInk(surface.selection)
       /\ calls[Len(calls) - 1] = "scrapeVisualGraph"
       /\ calls[Len(calls)] = "scrapeHeaders"
       /\ pc = "done" /\ outcome = "null"
       /\ scrapeHeaders(surface.document) = Null

\* C27 witness: the selection is a bullet with nothing after it, and
\* scrapePageStructure has returned the "No Content" node over a surface the
\* visual graph has a tree for and a document with headings.
C27_Witness ==
  /\ stage = "returned"
  /\ surface.selection = <<"-", " ">>
  /\ pageResult = [name |-> NoContent, children |-> <<>>]
  /\ calls = <<"parseTextStructure">>
  /\ pc = "idle"
  /\ surface.elements = DiagramSurface.elements
  /\ HeadingTree # Null

\* scrapePageStructure has returned null: white space was selected, and
\* neither the visual graph nor the headings had a tree.
C27_NullReturned ==
  /\ stage = "returned"
  /\ pageResult = Null
  /\ surface.selection = <<" ", "\n", "\t">>
  /\ calls = <<"scrapeVisualGraph", "scrapeHeaders">>

\* The indices, among the first n lines, of the lines whose name is not
\* empty after cleaning: the kept lines.
KeptLines(ls, n) ==
  SelectSeq([k \in 1..n |-> k], LAMBDA k : CleanName(ls[k]) # <<>>)

\* The last position before j whose level is strictly lower than that of j,
\* 0 when there is none.
NearestLower(levels, j) ==
  LET lower == {k \in 1..(j - 1) : levels[k] < levels[j]} IN
    IF lower = {} THEN 0 ELSE CHOOSE k \in lower : \A l \in lower : l <= k

\* The names of a tree, a node before its children and the children in
\* their order.
RECURSIVE Preorder(_)
Preorder(tree) ==
  LET below[k \in 0..Len(tree.children)] ==
        IF k = 0 THEN <<>> ELSE below[k - 1] \o Preorder(tree.children[k])
  IN <<tree.name>> \o below[Len(tree.children)]

\* C28: in parseTextStructure, after every iteration, each kept line has one
\* node, whose parent is the nearest preceding kept line of a strictly lower
\* indent level, or the virtual root when there is none; the stack has the
\* virtual root at its bottom and strictly increasing levels above it; every
\* kept line is once in the tree under the virtual root, in input order, and
\* the returned tree is made of that tree; and an iteration that keeps a
\* line appends its node as the last child of its parent.
C28_NearestLowerParent ==
  /\ [](parsePc \in {"loop", "returned"} /\ Lines(parseText) # <<>> =>
         LET ls == Lines(parseText)
             kept == KeptLines(ls, parseIndex)
             levels == [j \in 1..Len(kept) |-> detectIndentLevel(ls[kept[j]])]
             nodes == parseState.nodes
             stack == parseState.stack
             top == SubTree(nodes, 0).children
         IN /\ Len(nodes) = Len(kept)
            /\ \A j \in 1..Len(nodes) :
                 /\ nodes[j].name = CleanName(ls[kept[j]])
                 /\ nodes[j].parent = NearestLower(levels, j)
            /\ Len(stack) >= 1
            /\ stack[1] = [level |-> -1, node |-> 0]
            /\ \A k \in 1..(Len(stack) - 1) : stack[k].level < stack[k + 1].level
            /\ \A k \in 2..Len(stack) : stack[k].level = levels[stack[k].node]
            /\ Tail(Preorder(SubTree(nodes, 0))) =
                 [j \in 1..Len(kept) |-> CleanName(ls[kept[j]])]
            /\ parsePc = "returned" =>
                 /\ parseIndex = Len(ls)
                 /\ parseResult = parseTextStructure(parseText)
                 /\ \/ Len(top) = 0 /\ parseResult = [name |-> NoContent, children |-> <<>>]
                    \/ Len(top) = 1 /\ parseResult = top[1]
                    \/ Len(top) > 1 /\ parseResult.children = top)
  /\ [][Len(parseState'.nodes) = Len(parseState.nodes) + 1 =>
         LET j == Len(parseState'.nodes)
             parent == parseState'.nodes[j].parent
         IN /\ SubSeq(parseState'.nodes, 1, j - 1) = parseState.nodes
            /\ SubTree(parseState'.nodes, parent).children =
                 Append(SubTree(parseState.nodes, parent).children,
                        [name |-> parseState'.nodes[j].name, children |-> <<>>])
            /\ parseState'.stack[Len(parseState'.stack)].node = j
            /\ parseState'.stack[Len(parseState'.stack) - 1].node = parent]_vars

\* C28 witness: three lines were kept; the second is under the first and the
\* third, of the level of the first, popped both and is under the virtual
\* root.
C28_Witness ==
  /\ parsePc = "returned"
  /\ Len(parseState.nodes) = 3
  /\ parseState.nodes[2].parent = 1
  /\ parseState.nodes[3].parent = 0
  /\ Len(parseState.stack) = 2
  /\ parseResult.name = SelectedNotes
  /\ Len(parseResult.children) = 2
  /\ Len(parseResult.children[1].children) = 1

\* A line that cleans to empty was skipped between two kept lines.
C28_LineSkipped ==
  /\ parsePc = "returned"
  /\ Len(Lines(parseText)) = 3
  /\ CleanName(Lines(parseText)[2]) = <<>>
  /\ Len(parseState.nodes) = 2
  /\ parseState.nodes[2].parent = 1

\* C29: the listener of the content script, called with GET_DATA, has made
\* no call of sendResponse before scrapePageStructure ends and exactly one
\* when it returns: success with the tree when scrapePageStructure returned
\* a tree, failure with a message when it returned null, failure with the
\* message for an error when it threw; nothing it throws leaves the
\* listener, and in its try block scrapePageStructure is running or has
\* ended.
C29_OneResponse ==
  (request.action = "GET_DATA") =>
    /\ listenerPc # "escaped"
    /\ listenerPc \in {"called", "try"} => responses = <<>>
    /\ listenerPc = "try" =>
         \/ stage \in {"selection", "headers", "returned", "threw"}
         \/ stage = "visual" /\ pc # "idle"
    /\ listenerPc = "returned" =>
         /\ Len(responses) = 1
         /\ stage \in {"returned", "threw"}
         /\ (stage = "returned" /\ pageResult # Null) =>
              /\ responses[1].success
              /\ responses[1].data = pageResult
         /\ (stage = "returned" /\ pageResult = Null) =>
              /\ ~responses[1].success
              /\ responses[1].message = NoDataFound
         /\ stage = "threw" =>
              /\ ~responses[1].success
              /\ responses[1].message = ParseFailed

\* C29 witness: buildNode overflowed the stack under scrapePageStructure,
\* and the listener has returned after one call of sendResponse, with the
\* message for an error.
C29_Witness ==
  /\ request.action = "GET_DATA"
  /\ listenerPc = "returned"
  /\ stage = "threw"
  /\ outcome = "RangeError"
  /\ responses = <<[success |-> FALSE, data |-> Null, message |-> ParseFailed]>>

\* The listener has answered with the tree of the visual graph.
C29_TreeSent ==
  /\ listenerPc = "returned"
  /\ outcome = "tree"
  /\ responses = <<[success |-> TRUE, data |-> finalTree,
                    message |-> StructureLoaded]>>

\* The listener has answered that there is no data.
C29_NoDataSent ==
  /\ listenerPc = "returned"
  /\ calls = <<"scrapeVisualGraph", "scrapeHeaders">>
  /\ responses = <<[success |-> FALSE, data |-> Null, message |-> NoDataFound]>>

\* The positions of the effects of the kind for the message m.
EffectsAt(kind, m) ==
  {k \in 1..Len(effects) : effects[k] = Effect(kind, m)}

\* C30: for each OPEN_STUDIO_TAB message the background script has at most
\* one write, one tab and one response; its tab is created only after its
\* write to local storage has ended, and its response is sent only after its
\* tab was created; the tabs and the responses are those of the effects; a
\* message of any other action has no write, no tab and no response.
C30_EffectsOrdered ==
  /\ \A m \in 1..Len(messages) :
       IF messages[m].action = "OPEN_STUDIO_TAB"
       THEN /\ \A kind \in {"storage.set", "written", "tabs.create", "sendResponse"} :
                 Cardinality(EffectsAt(kind, m)) <= 1
            /\ \A k \in EffectsAt("written", m) :
                 \E j \in EffectsAt("storage.set", m) : j < k
            /\ \A k \in EffectsAt("tabs.create", m) :
                 /\ \E j \in EffectsAt("written", m) : j < k
                 /\ m \notin writing
            /\ \A k \in EffectsAt("sendResponse", m) :
                 \E j \in EffectsAt("tabs.create", m) : j < k
            /\ m <= delivered => returns[m] = TRUE
       ELSE /\ \A k \in 1..Len(effects) : effects[k].message # m
            /\ m \notin writing \cup callbacks
            /\ \A k \in 1..Len(replies) : replies[k].to # m
  /\ Len(tabs) = Cardinality({k \in 1..Len(effects) : effects[k].kind = "tabs.create"})
  /\ Len(replies) = Cardinality({k \in 1..Len(effects) : effects[k].kind = "sendResponse"})
  /\ \A k \in 1..Len(replies) :
       /\ EffectsAt("sendResponse", replies[k].to) # {}
       /\ replies[k].response = [success |-> TRUE]
  /\ Len(tabs) <= Cardinality({m \in 1..delivered :
                                 /\ messages[m].action = "OPEN_STUDIO_TAB"
                                 /\ m \notin writing})
  /\ (\A m \in 1..Len(messages) : messages[m].action # "OPEN_STUDIO_TAB")
       => storage = Null /\ tabs = <<>> /\ replies = <<>>

\* C30 witness: two messages ask for the studio with different trees; the
\* write of the second ended before the write of the first and its callback
\* ran first; both tabs are created and both responses sent.
C30_Witness ==
  /\ Len(messages) = 2
  /\ delivered = 2
  /\ messages[1].action = "OPEN_STUDIO_TAB"
  /\ messages[2].action = "OPEN_STUDIO_TAB"
  /\ messages[1].data # messages[2].data
  /\ storage = messages[1].data
  /\ Len(tabs) = 2
  /\ Len(replies) = 2
  /\ replies[1].to = 2
  /\ writing = {} /\ callbacks = {}

\* A message of another action came after a request for the studio was
\* answered, and nothing followed it.
C30_OtherIgnored ==
  /\ Len(messages) = 2
  /\ delivered = 2
  /\ messages[1].action = "OPEN_STUDIO_TAB"
  /\ messages[2].action = "GET_DATA"
  /\ returns = <<TRUE, Null>>
  /\ Len(tabs) = 1
  /\ Len(replies) = 1
  /\ Len(effects) = 4

====
